---------------------------- MODULE Spec2Model ----------------------------
(***************************************************************************)
(* The value -> encoder protocol of serde (serde/src/ser/impls.rs) and the *)
(* Serialize implementations that serde_codegen/src/ser.rs derives.        *)
(*                                                                         *)
(* One behaviour is one top-level call value.serialize(serializer).  The   *)
(* library's code (serialize bodies, visitor visit methods) is translated  *)
(* statement by statement; the encoder (the Serializer, which is not part  *)
(* of the library) is the environment: it answers every call with Ok or a  *)
(* failure, recurses into the element handed to an element callback, and   *)
(* pulls the visitor it was handed as often as it likes.                   *)
(***************************************************************************)
EXTENDS Integers, Sequences, FiniteSets, TLC

\* ------------------------------------------------------------------ bounds

\* longest slice / Vec / array / iterator script, most keys inserted in a set or map
MaxLen == 3
\* most failures the encoder originates in one top-level call
MaxFailures == 1
\* most pulls an entry point makes on one visitor after that visitor has
\* reported exhaustion or a failure
MaxLatePulls == 2
\* most fields of a derived struct or of a struct variant
MaxFields == 3

\* most pulls an entry point that stops at the first exhaustion or failure is
\* followed through on one visitor (more than the longest container needs)
MaxPulls == 14

\* --------------------------------------------------------- program constants

\* tuple_impls! is instantiated for arities 1 .. 12
MaxTupleArity == 12
\* $TupleVisitor.state is a u8
U8 == 256

\* ------------------------------------------------------------------ values

\* Every Rust value the model serializes is a record of one shape:
\*   kind  the Rust type constructor,
\*   name  the scalar type, the declared type name or the runtime variant,
\*   x     the scalar payload (an abstract integer; for str an id of the text),
\*   elems the owned nested values,
\*   decl  for a derived type, its declaration (fields or variants).
V(kind, name, x, elems, decl) ==
    [kind |-> kind, name |-> name, x |-> x, elems |-> elems, decl |-> decl]

Prim(ty, x) == V("prim", ty, x, <<>>, <<>>)
I32(x) == Prim("i32", x)
Str(x) == V("str", "str", x, <<>>, <<>>)
StringV(x) == V("String", "String", x, <<>>, <<>>)
UnitV == V("unit", "()", 0, <<>>, <<>>)
OptNone == V("Option", "None", 0, <<>>, <<>>)
OptSome(v) == V("Option", "Some", 0, <<v>>, <<>>)
Coll(kind, es) == V(kind, "", 0, es, <<>>)
Pair(k, v) == V("pair", "", 0, <<k, v>>, <<>>)
Wrap(kind, v) == V(kind, "", 0, <<v>>, <<>>)
PathV(kind, x) == V(kind, "", x, <<>>, <<>>)
\* the "signals exhaustion" answer of a scripted iteration source
NoItem == V("no-item", "", 0, <<>>, <<>>)

PrimTypes ==
    {"bool", "isize", "i8", "i16", "i32", "i64", "usize", "u8", "u16", "u32",
     "u64", "f32", "f64", "char"}
Wrappers == {"&T", "&mut T", "Box", "Rc", "Arc"}
Errors == {"E1", "E2"}

Range(s) == {s[i] : i \in DOMAIN s}
SeqsUpTo(S, n) == UNION {[1..k -> S] : k \in 0..n}
Last(s) == s[Len(s)]
IsInjective(s) == \A i, j \in DOMAIN s : s[i] = s[j] => i = j
Perms(S) == {s \in [1..Cardinality(S) -> S] : Range(s) = S}


\* ------------------------------------------------- encoder calls and visitors

\* One call on the Serializer: the method, the type / variant names and index a
\* named entry point carries, the key of a named-map element, the value or
\* element passed (for visit_map_elt the (key, value) pair), and for a visitor
\* handoff the visitor's len() at the handoff (-1: None, -2: no visitor).
\* res is the call's result once it has returned.
Ev(m, ty, idx, vname, key, val, len) ==
    [m |-> m, ty |-> ty, idx |-> idx, vname |-> vname, key |-> key, val |-> val,
     len |-> len, res |-> "pending"]
Scalar(m, val) == Ev(m, "", -1, "", "", val, -2)

\* A visitor object: vk its type, src the iterator it wraps (the items the
\* source has still to answer), len the stored Option<usize> (-1: None),
\* state the position counter, value the borrowed tuple / struct / payload,
\* arms the match arms of its visit method, elt the element callback its
\* visit method calls.
Vis(vk, src, len, state, value, arms, elt) ==
    [vk |-> vk, src |-> src, len |-> len, state |-> state, value |-> value,
     arms |-> arms, elt |-> elt]
NoVis == Vis("none", <<>>, -2, 0, UnitV, <<>>, "")
Arm(pat, key, fname, idx) == [pat |-> pat, key |-> key, fname |-> fname, idx |-> idx]

\* What one serialize body does: "call" one Serializer method (ev), handing
\* over vis and, for visit_some, the nested value (todo); or "delegate" to
\* the serialize of another value (to); or "panic".
Out(act, ev, vis, todo, to) ==
    [act |-> act, ev |-> ev, vis |-> vis, todo |-> todo, to |-> to]
Call(ev, vis, todo) == Out("call", ev, vis, todo, UnitV)
Delegate(to) == Out("delegate", Scalar("", UnitV), NoVis, <<>>, to)
Panic == Out("panic", Scalar("", UnitV), NoVis, <<>>, UnitV)

\* --------------------------------------------- std collections and iterators

\* Ord on the keys the model uses (integers); a map entry is ordered by its key
KeyOf(v) == IF v.kind = "pair" THEN v.elems[1].x ELSE v.x

\* The content of a set after the insertions ins (a later equal key is not
\* inserted again) and of a map (a later equal key replaces the value)
SetContent(ins) == {ins[i] : i \in {j \in DOMAIN ins : \A h \in 1..(j-1) : KeyOf(ins[h]) # KeyOf(ins[j])}}
MapContent(ins) == {ins[i] : i \in {j \in DOMAIN ins : \A h \in (j+1)..Len(ins) : KeyOf(ins[h]) # KeyOf(ins[j])}}
Content(v) == IF v.kind \in {"BTreeMap", "HashMap"} THEN MapContent(v.elems) ELSE SetContent(v.elems)

\* BTreeSet::iter / BTreeMap::iter: ascending by key
BTreeIter(S) ==
    CHOOSE s \in Perms(S) : \A i, j \in DOMAIN s : i < j => KeyOf(s[i]) < KeyOf(s[j])
\* HashSet::iter / HashMap::iter: every element once, in an order the hasher picks
HashIters(S) == Perms(S)

\* Iterator::next on a scripted source: the next answer, and the source after it.
\* A source that has run out answers None for ever; NoItem inside the script is
\* a None that the source gives before further items (a source that is not fused).
IterNext(src) ==
    IF src = <<>> THEN [item |-> NoItem, src |-> <<>>]
    ELSE [item |-> Head(src), src |-> Tail(src)]

\* Path::to_str: Some(&str) when the path is valid UTF-8 (x >= 0), else None
to_str(p) == IF p.x >= 0 THEN Str(p.x) ELSE NoItem

\* ------------------------------------------------ serde/src/ser/impls.rs

\* impl_visit_method with one line copied and half edited: impl_visit!(f32, visit_f64)
impl_visit_method_typo ==
    [ty \in PrimTypes |->
        CASE ty = "bool" -> "visit_bool"
          [] ty = "isize" -> "visit_isize"
          [] ty = "i8" -> "visit_i8"
          [] ty = "i16" -> "visit_i16"
          [] ty = "i32" -> "visit_i32"
          [] ty = "i64" -> "visit_i64"
          [] ty = "usize" -> "visit_usize"
          [] ty = "u8" -> "visit_u8"
          [] ty = "u16" -> "visit_u16"
          [] ty = "u32" -> "visit_u32"
          [] ty = "u64" -> "visit_u64"
          [] ty = "f32" -> "visit_f64"
          [] ty = "f64" -> "visit_f64"
          [] ty = "char" -> "visit_char"]

\* impl_visit!($ty, $method): the method each scalar type is bound to
impl_visit_method ==
    [ty \in PrimTypes |->
        CASE ty = "bool" -> "visit_bool"
          [] ty = "isize" -> "visit_isize"
          [] ty = "i8" -> "visit_i8"
          [] ty = "i16" -> "visit_i16"
          [] ty = "i32" -> "visit_i32"
          [] ty = "i64" -> "visit_i64"
          [] ty = "usize" -> "visit_usize"
          [] ty = "u8" -> "visit_u8"
          [] ty = "u16" -> "visit_u16"
          [] ty = "u32" -> "visit_u32"
          [] ty = "u64" -> "visit_u64"
          [] ty = "f32" -> "visit_f32"
          [] ty = "f64" -> "visit_f64"
          [] ty = "char" -> "visit_char"]

\* serializer.$method(*self)
impl_visit(v) == {Call(Scalar(impl_visit_method[v.name], v), NoVis, <<>>)}

\* serializer.visit_str(self)
Serialize_str(v) == {Call(Scalar("visit_str", v), NoVis, <<>>)}

\* (&self[..]).serialize(serializer)
Serialize_String(v) == {Delegate(Str(v.x))}

\* Serialize_Option with a transparent present state:
\* Some(ref value) => value.serialize(serializer)
Serialize_Option_transparent(v) ==
    IF v.name = "Some"
    THEN {Delegate(v.elems[1])}
    ELSE {Call(Scalar("visit_none", v), NoVis, <<>>)}

\* Some(ref value) => serializer.visit_some(value), None => serializer.visit_none()
Serialize_Option(v) ==
    IF v.name = "Some"
    THEN {Call(Scalar("visit_some", v.elems[1]), NoVis, <<v.elems[1]>>)}
    ELSE {Call(Scalar("visit_none", v), NoVis, <<>>)}

SeqIteratorVisitor_new(iter, len) ==
    Vis("SeqIteratorVisitor", iter, len, 0, UnitV, <<>>, "visit_seq_elt")

\* SeqIteratorVisitor_len answering from the iterator, with what is left of
\* it: self.iter.size_hint().1
SeqIteratorVisitor_len_remaining(vis) == Len(vis.src)

\* fn len(&self) -> Option<usize> { self.len }
SeqIteratorVisitor_len(vis) == vis.len

\* serializer.visit_seq(SeqIteratorVisitor::new(self.iter(), Some(self.len())))
Serialize_slice(v) ==
    LET vis == SeqIteratorVisitor_new(v.elems, Len(v.elems))
    IN  {Call(Ev("visit_seq", "", -1, "", "", v, SeqIteratorVisitor_len(vis)), vis, <<>>)}

\* array_impls!($len): Some($len), $len being the length of the array type
array_impls(v) ==
    LET vis == SeqIteratorVisitor_new(v.elems, v.x)
    IN  {Call(Ev("visit_seq", "", -1, "", "", v, SeqIteratorVisitor_len(vis)), vis, <<>>)}

\* (&self[..]).serialize(serializer)
Serialize_Vec(v) == {Delegate(Coll("slice", v.elems))}

\* Serialize_BTreeSet iterating from the greatest key down: self.iter().rev()
Serialize_BTreeSet_rev(v) ==
    LET up == BTreeIter(Content(v))
        vis == SeqIteratorVisitor_new([k \in DOMAIN up |-> up[Len(up) + 1 - k]],
                                      Cardinality(Content(v)))
    IN  {Call(Ev("visit_seq", "", -1, "", "", v, SeqIteratorVisitor_len(vis)), vis, <<>>)}

Serialize_BTreeSet(v) ==
    LET vis == SeqIteratorVisitor_new(BTreeIter(Content(v)), Cardinality(Content(v)))
    IN  {Call(Ev("visit_seq", "", -1, "", "", v, SeqIteratorVisitor_len(vis)), vis, <<>>)}

\* Serialize_HashSet starting after the first element: self.iter().skip(1)
Serialize_HashSet_skip(v) ==
    {Call(Ev("visit_seq", "", -1, "", "", v, Cardinality(Content(v))),
          SeqIteratorVisitor_new(IF it = <<>> THEN it ELSE Tail(it),
                                 Cardinality(Content(v))), <<>>)
       : it \in HashIters(Content(v))}

\* serializer.visit_seq(SeqIteratorVisitor::new(self.iter(), Some(self.len())))
Serialize_HashSet(v) ==
    {Call(Ev("visit_seq", "", -1, "", "", v, Cardinality(Content(v))),
          SeqIteratorVisitor_new(it, Cardinality(Content(v))), <<>>)
       : it \in HashIters(Content(v))}

\* serializer.visit_unit()
Serialize_unit(v) == {Call(Scalar("visit_unit", v), NoVis, <<>>)}

\* tuple_impls with one arm of TupleVisitor12 mistyped: 11 => 10
tuple_impls_typo(n) ==
    [k \in 1..n |-> Arm(k - 1, "", "", IF n = MaxTupleArity /\ k = n THEN k - 2 ELSE k - 1)]

\* tuple_impls!: the arms  $state => $idx  of $TupleVisitor of arity n
tuple_impls(n) == [k \in 1..n |-> Arm(k - 1, "", "", k - 1)]

\* TupleVisitor_new handing out a visitor that is already past slot 0:
\* $TupleVisitor { tuple: tuple, state: 1 }
TupleVisitor_new_advanced(tuple) ==
    Vis("TupleVisitor", <<>>, -2, 1, tuple, tuple_impls(Len(tuple.elems)), "visit_seq_elt")

\* $TupleVisitor::new: $TupleVisitor { tuple: tuple, state: 0 }
TupleVisitor_new(tuple) ==
    Vis("TupleVisitor", <<>>, -2, 0, tuple, tuple_impls(Len(tuple.elems)), "visit_seq_elt")

\* Some($len)
TupleVisitor_len(vis) == Len(vis.arms)

\* serializer.visit_tuple($TupleVisitor::new(self))
Serialize_tuple(v) ==
    LET vis == TupleVisitor_new(v)
    IN  {Call(Ev("visit_tuple", "", -1, "", "", v, TupleVisitor_len(vis)), vis, <<>>)}

MapIteratorVisitor_new(iter, len) ==
    Vis("MapIteratorVisitor", iter, len, 0, UnitV, <<>>, "visit_map_elt")

MapIteratorVisitor_len(vis) == vis.len

Serialize_BTreeMap(v) ==
    LET vis == MapIteratorVisitor_new(BTreeIter(Content(v)), Cardinality(Content(v)))
    IN  {Call(Ev("visit_map", "", -1, "", "", v, MapIteratorVisitor_len(vis)), vis, <<>>)}

Serialize_HashMap(v) ==
    {Call(Ev("visit_map", "", -1, "", "", v, Cardinality(Content(v))),
          MapIteratorVisitor_new(it, Cardinality(Content(v))), <<>>)
       : it \in HashIters(Content(v))}

\* Serialize_deref treating the wrapper as a value of its own around the
\* pointee: serializer.visit_some(&**self)
Serialize_deref_wrapping(v) == {Call(Scalar("visit_some", v.elems[1]), NoVis, <<v.elems[1]>>)}

\* &T, &mut T, Box<T>, Rc<T>, Arc<T>: (**self).serialize(serializer)
Serialize_deref(v) == {Delegate(v.elems[1])}

\* Path, PathBuf: self.to_str().unwrap().serialize(serializer)
Serialize_Path(v) ==
    IF to_str(v) = NoItem THEN {Panic} ELSE {Delegate(to_str(v))}


\* What a visit method does: "elt", one element callback ev passing todo (the
\* element, or the key and the value), or "none", Ok(None) without a call;
\* vis is the visitor after the statements that precede the call or the return.
VisitOut(act, vis, ev, todo) == [act |-> act, vis |-> vis, ev |-> ev, todo |-> todo]

\* SeqIteratorVisitor_visit stopping one element early: it looks one item
\* ahead and reports exhaustion when nothing follows the item it took
SeqIteratorVisitor_visit_short(vis) ==
    LET nx == IterNext(vis.src)
        after == [vis EXCEPT !.src = nx.src]
    IN  IF nx.item # NoItem /\ IterNext(nx.src).item # NoItem
        THEN VisitOut("elt", after, Scalar("visit_seq_elt", nx.item), <<nx.item>>)
        ELSE VisitOut("none", after, Scalar("", UnitV), <<>>)

\* SeqIteratorVisitor::visit: match self.iter.next()
SeqIteratorVisitor_visit(vis) ==
    LET nx == IterNext(vis.src)
        after == [vis EXCEPT !.src = nx.src]
    IN  IF nx.item # NoItem
        THEN VisitOut("elt", after, Scalar("visit_seq_elt", nx.item), <<nx.item>>)
        ELSE VisitOut("none", after, Scalar("", UnitV), <<>>)

\* MapIteratorVisitor_visit passing the key of the pair on its own:
\* Some((key, _)) => serializer.visit_seq_elt(key)
MapIteratorVisitor_visit_key_only(vis) ==
    LET nx == IterNext(vis.src)
        after == [vis EXCEPT !.src = nx.src]
    IN  IF nx.item # NoItem
        THEN VisitOut("elt", after, Scalar("visit_seq_elt", nx.item.elems[1]),
                      <<nx.item.elems[1]>>)
        ELSE VisitOut("none", after, Scalar("", UnitV), <<>>)

\* MapIteratorVisitor::visit: match self.iter.next()
MapIteratorVisitor_visit(vis) ==
    LET nx == IterNext(vis.src)
        after == [vis EXCEPT !.src = nx.src]
    IN  IF nx.item # NoItem
        THEN VisitOut("elt", after, Scalar("visit_map_elt", nx.item),
                      <<nx.item.elems[1], nx.item.elems[2]>>)
        ELSE VisitOut("none", after, Scalar("", UnitV), <<>>)

\* the arms of a match self.state whose pattern is the state
MatchArms(vis) == {i \in DOMAIN vis.arms : vis.arms[i].pat = vis.state}

\* the field of a struct (or of the runtime variant of an enum) called fname
FieldDecls(v) == IF v.kind = "enum" THEN v.decl[v.x + 1].fields ELSE v.decl
FieldByName(v, fname) ==
    v.elems[CHOOSE i \in DOMAIN v.elems : FieldDecls(v)[i].name = fname]

\* TupleVisitor_visit without  self.state += 1  in its arms: the counter stays
TupleVisitor_visit_stuck(vis) ==
    IF MatchArms(vis) # {}
    THEN LET arm == vis.arms[CHOOSE i \in MatchArms(vis) : \A j \in MatchArms(vis) : i <= j]
             slot == vis.value.elems[arm.idx + 1]
         IN  VisitOut("elt", vis, Scalar("visit_seq_elt", slot), <<slot>>)
    ELSE VisitOut("none", vis, Scalar("", UnitV), <<>>)

\* TupleVisitor_visit with a fall-through arm that rewinds:
\* _ => { self.state = 0; Ok(None) }
TupleVisitor_visit_rewind(vis) ==
    IF MatchArms(vis) # {}
    THEN LET arm == vis.arms[CHOOSE i \in MatchArms(vis) : \A j \in MatchArms(vis) : i <= j]
             slot == vis.value.elems[arm.idx + 1]
         IN  VisitOut("elt", [vis EXCEPT !.state = (vis.state + 1) % U8],
                      Scalar("visit_seq_elt", slot), <<slot>>)
    ELSE VisitOut("none", [vis EXCEPT !.state = 0], Scalar("", UnitV), <<>>)

\* $TupleVisitor::visit: match self.state { $state => { self.state += 1;
\* serializer.visit_seq_elt(&self.tuple.$idx) } _ => Ok(None) }
TupleVisitor_visit(vis) ==
    IF MatchArms(vis) # {}
    THEN LET arm == vis.arms[CHOOSE i \in MatchArms(vis) : \A j \in MatchArms(vis) : i <= j]
             slot == vis.value.elems[arm.idx + 1]
         IN  VisitOut("elt", [vis EXCEPT !.state = (vis.state + 1) % U8],
                      Scalar("visit_seq_elt", slot), <<slot>>)
    ELSE VisitOut("none", vis, Scalar("", UnitV), <<>>)

\* ------------------------------------------------ serde_codegen/src/ser.rs

\* A declaration handed to #[derive(Serialize)]: a struct is its fields, an
\* enum its variants, each a record of one shape:
\*   name   the field's name ("" when unnamed) or the variant's name,
\*   kind   "named" | "unnamed" for a field, "tuple" | "struct" for a variant,
\*   fields a variant's fields.
FieldDecl(name) ==
    [name |-> name, kind |-> IF name = "" THEN "unnamed" ELSE "named", fields |-> <<>>]
VariantDecl(name, kind, fields) == [name |-> name, kind |-> kind, fields |-> fields]

\* The code one quote_expr! / quote_arm! generates: the Serializer method it
\* calls with the type name, variant index and variant name spliced in, the
\* generated Visitor (its arms, its len(), its element callback; vk "none" when
\* the call hands over no visitor) and the fields bound to Visitor.value.
\* shape "bug" is cx.bug: the expansion aborts and generates nothing.
Gen(shape, m, ty, idx, vname, visitor, bind) ==
    [shape |-> shape, m |-> m, ty |-> ty, idx |-> idx, vname |-> vname,
     visitor |-> visitor, bind |-> bind]
GenVisitor(vk, arms, len, elt) == [vk |-> vk, arms |-> arms, len |-> len, elt |-> elt]
NoGenVisitor == GenVisitor("none", <<>>, -2, "")
GenBug == Gen("bug", "", "", -1, "", NoGenVisitor, <<>>)

Min(a, b) == IF a < b THEN a ELSE b

\* field::struct_field_attrs and FieldAttrs::serializer_key_expr: the key
\* expression of each field, the field's name
struct_field_attrs(fields) == [i \in DOMAIN fields |-> fields[i].name]

\* arms  $i => { self.state += 1; serializer.visit_tuple_elt(&self.value.$i) },
\* len() = Some($fields)
serialize_tuple_struct_visitor(fields) ==
    GenVisitor("GenSeqVisitor", [i \in 1..fields |-> Arm(i - 1, "", "", i - 1)],
               fields, "visit_tuple_elt")

\* arms  $i => { self.state += 1; serializer.visit_named_map_elt($key_expr,
\* $value_expr) } over field_attrs zipped with value_exprs,
\* len() = Some(struct_def.fields.len())
serialize_struct_visitor(struct_def, value_exprs) ==
    LET len == Len(struct_def)
        field_attrs == struct_field_attrs(struct_def)
    IN  GenVisitor("GenMapVisitor",
                   [i \in 1..Min(Len(field_attrs), Len(value_exprs)) |->
                       Arm(i - 1, field_attrs[i], value_exprs[i].fname, value_exprs[i].idx)],
                   len, "visit_named_map_elt")

\* serialize_unit_struct without the type name: serializer.visit_unit()
serialize_unit_struct_anonymous(type_ident) ==
    Gen("call", "visit_unit", "", -1, "", NoGenVisitor, <<>>)

\* serializer.visit_named_unit($type_name)
serialize_unit_struct(type_ident) ==
    Gen("call", "visit_named_unit", type_ident, -1, "", NoGenVisitor, <<>>)

\* serialize_tuple_struct building its visitor for one field too few:
\* serialize_tuple_struct_visitor(.., fields - 1, ..)
serialize_tuple_struct_short(type_ident, fields) ==
    Gen("call", "visit_named_seq", type_ident, -1, "",
        serialize_tuple_struct_visitor(fields - 1), <<>>)

\* serializer.visit_named_seq($type_name, Visitor { value: self, state: 0 })
serialize_tuple_struct(type_ident, fields) ==
    Gen("call", "visit_named_seq", type_ident, -1, "",
        serialize_tuple_struct_visitor(fields), <<>>)

\* serialize_struct with the value expressions taken in reverse:
\* fields.iter().rev().map(..)
serialize_struct_rev(type_ident, struct_def, fields) ==
    Gen("call", "visit_named_map", type_ident, -1, "",
        serialize_struct_visitor(struct_def,
            [i \in DOMAIN fields |-> [fname |-> fields[Len(fields) + 1 - i], idx |-> -1]]), <<>>)

\* serializer.visit_named_map($type_name, Visitor { value: self, state: 0 }),
\* the value expressions being &self.value.$field for each named field
serialize_struct(type_ident, struct_def, fields) ==
    Gen("call", "visit_named_map", type_ident, -1, "",
        serialize_struct_visitor(struct_def,
            [i \in DOMAIN fields |-> [fname |-> fields[i], idx |-> -1]]), <<>>)

\* the names of the named fields, in order (named_fields.push(name))
NamedFields(struct_def) ==
    LET named == SelectSeq(struct_def, LAMBDA f : f.kind = "named")
    IN  [i \in DOMAIN named |-> named[i].name]
\* the number of unnamed fields (unnamed_fields += 1)
UnnamedFields(struct_def) == Len(SelectSeq(struct_def, LAMBDA f : f.kind = "unnamed"))

\* serialize_item_struct that looks only at the named fields: whenever there
\* is one, the struct is serialized as a map of its named fields
serialize_item_struct_lenient(type_ident, struct_def) ==
    LET named_fields == NamedFields(struct_def)
        unnamed_fields == UnnamedFields(struct_def)
    IN  CASE named_fields = <<>> /\ unnamed_fields = 0 ->
               serialize_unit_struct(type_ident)
          [] named_fields = <<>> /\ unnamed_fields # 0 ->
               serialize_tuple_struct(type_ident, unnamed_fields)
          [] OTHER ->
               serialize_struct(type_ident, struct_def, named_fields)

\* match (named_fields.is_empty(), unnamed_fields == 0): the body generated
\* for a struct, or cx.bug("struct has named and unnamed fields")
serialize_item_struct(type_ident, struct_def) ==
    LET named_fields == NamedFields(struct_def)
        unnamed_fields == UnnamedFields(struct_def)
    IN  CASE named_fields = <<>> /\ unnamed_fields = 0 ->
               serialize_unit_struct(type_ident)
          [] named_fields = <<>> /\ unnamed_fields # 0 ->
               serialize_tuple_struct(type_ident, unnamed_fields)
          [] named_fields # <<>> /\ unnamed_fields = 0 ->
               serialize_struct(type_ident, struct_def, named_fields)
          [] OTHER -> GenBug

\* serializer.visit_enum_seq($type_name, $variant_index, $variant_name,
\* Visitor { value: (&__field0, ...), state: 0 }), __field<i> bound by position
serialize_tuple_variant(type_name, variant_index, variant_name, args) ==
    Gen("call", "visit_enum_seq", type_name, variant_index, variant_name,
        serialize_tuple_struct_visitor(Len(args)),
        [i \in DOMAIN args |-> [fname |-> "", idx |-> i - 1]])

\* serializer.visit_enum_map($type_name, $variant_index, $variant_name,
\* Visitor { value: (&__field0, ...), state: 0 }), __field<i> bound to the field
\* called struct_def.fields[i]; the value expressions are self.value.<i>
serialize_struct_variant(type_name, variant_index, variant_name, struct_def) ==
    Gen("call", "visit_enum_map", type_name, variant_index, variant_name,
        serialize_struct_visitor(struct_def,
            [i \in DOMAIN struct_def |-> [fname |-> "", idx |-> i - 1]]),
        [i \in DOMAIN struct_def |-> [fname |-> struct_def[i].name, idx |-> -1]])

\* serialize_variant without the guard  if args.is_empty()  on its first arm:
\* every tuple variant, the payload-less ones too, goes to serialize_tuple_variant
serialize_variant_unguarded(type_ident, variant, variant_index) ==
    LET type_name == type_ident
        variant_name == variant.name
        body ==
          CASE variant.kind = "tuple" ->
                 serialize_tuple_variant(type_name, variant_index, variant_name,
                                         variant.fields)
            [] variant.kind = "struct" ->
                 IF \E i \in DOMAIN variant.fields : variant.fields[i].kind = "unnamed"
                 THEN GenBug
                 ELSE serialize_struct_variant(type_name, variant_index,
                                               variant_name, variant.fields)
    IN  [pat |-> variant.name, body |-> body]

\* one match arm: its pattern (the variant it matches) and its body
serialize_variant(type_ident, variant, variant_index) ==
    LET type_name == type_ident
        variant_name == variant.name
        body ==
          CASE variant.kind = "tuple" /\ variant.fields = <<>> ->
                 Gen("call", "visit_enum_unit", type_name, variant_index,
                     variant_name, NoGenVisitor, <<>>)
            [] variant.kind = "tuple" /\ variant.fields # <<>> ->
                 serialize_tuple_variant(type_name, variant_index, variant_name,
                                         variant.fields)
            [] variant.kind = "struct" ->
                 IF \E i \in DOMAIN variant.fields : variant.fields[i].kind = "unnamed"
                 THEN GenBug
                 ELSE serialize_struct_variant(type_name, variant_index,
                                               variant_name, variant.fields)
    IN  [pat |-> variant.name, body |-> body]

\* serialize_item_enum numbering the variants from 1
serialize_item_enum_from1(type_ident, enum_def) ==
    [i \in DOMAIN enum_def |-> serialize_variant(type_ident, enum_def[i], i)]

\* enum_def.variants.iter().enumerate().map(serialize_variant): match *self { $arms }
serialize_item_enum(type_ident, enum_def) ==
    [i \in DOMAIN enum_def |-> serialize_variant(type_ident, enum_def[i], i - 1)]

\* GenSeqVisitor_visit whose arms call the callback of the anonymous
\* sequences: serializer.visit_seq_elt(&self.value.$i)
GenSeqVisitor_visit_seq_elt(vis) ==
    IF MatchArms(vis) # {}
    THEN LET arm == vis.arms[CHOOSE i \in MatchArms(vis) : \A j \in MatchArms(vis) : i <= j]
             field == vis.value.elems[arm.idx + 1]
         IN  VisitOut("elt", [vis EXCEPT !.state = vis.state + 1],
                      Scalar("visit_seq_elt", field), <<field>>)
    ELSE VisitOut("none", vis, Scalar("", UnitV), <<>>)

\* GenSeqVisitor_visit whose arms lack the  self.state += 1  before the call
GenSeqVisitor_visit_unmoved(vis) ==
    IF MatchArms(vis) # {}
    THEN LET arm == vis.arms[CHOOSE i \in MatchArms(vis) : \A j \in MatchArms(vis) : i <= j]
             field == vis.value.elems[arm.idx + 1]
         IN  VisitOut("elt", vis, Scalar("visit_tuple_elt", field), <<field>>)
    ELSE VisitOut("none", vis, Scalar("", UnitV), <<>>)

\* The generated Visitor's visit of serialize_tuple_struct_visitor
GenSeqVisitor_visit(vis) ==
    IF MatchArms(vis) # {}
    THEN LET arm == vis.arms[CHOOSE i \in MatchArms(vis) : \A j \in MatchArms(vis) : i <= j]
             field == vis.value.elems[arm.idx + 1]
         IN  VisitOut("elt", [vis EXCEPT !.state = vis.state + 1],
                      Scalar("visit_tuple_elt", field), <<field>>)
    ELSE VisitOut("none", vis, Scalar("", UnitV), <<>>)

\* GenMapVisitor_visit whose arms step the counter by two: self.state += 2
GenMapVisitor_visit_double(vis) ==
    IF MatchArms(vis) # {}
    THEN LET arm == vis.arms[CHOOSE i \in MatchArms(vis) : \A j \in MatchArms(vis) : i <= j]
             field == IF arm.fname # "" THEN FieldByName(vis.value, arm.fname)
                      ELSE vis.value.elems[arm.idx + 1]
         IN  VisitOut("elt", [vis EXCEPT !.state = vis.state + 2],
                      Ev("visit_named_map_elt", "", -1, "", arm.key, field, -2), <<field>>)
    ELSE VisitOut("none", vis, Scalar("", UnitV), <<>>)

\* The generated Visitor's visit of serialize_struct_visitor
GenMapVisitor_visit(vis) ==
    IF MatchArms(vis) # {}
    THEN LET arm == vis.arms[CHOOSE i \in MatchArms(vis) : \A j \in MatchArms(vis) : i <= j]
             field == IF arm.fname # "" THEN FieldByName(vis.value, arm.fname)
                      ELSE vis.value.elems[arm.idx + 1]
         IN  VisitOut("elt", [vis EXCEPT !.state = vis.state + 1],
                      Ev("visit_named_map_elt", "", -1, "", arm.key, field, -2), <<field>>)
    ELSE VisitOut("none", vis, Scalar("", UnitV), <<>>)

\* GenVisitor_new constructing the visitor past its first field:
\* Visitor { value: self, state: 1 }
GenVisitor_new_resumed(g, self) ==
    LET value == IF g.bind = <<>> THEN self
                 ELSE V("tuple", "", 0,
                        [i \in DOMAIN g.bind |->
                            IF g.bind[i].fname # "" THEN FieldByName(self, g.bind[i].fname)
                            ELSE self.elems[g.bind[i].idx + 1]], <<>>)
    IN  IF g.visitor.vk = "none" THEN NoVis
        ELSE Vis(g.visitor.vk, <<>>, -2, 1, value, g.visitor.arms, g.visitor.elt)

\* the Visitor { value: .., state: 0 } a generated body constructs over self
GenVisitor_new(g, self) ==
    LET value == IF g.bind = <<>> THEN self
                 ELSE V("tuple", "", 0,
                        [i \in DOMAIN g.bind |->
                            IF g.bind[i].fname # "" THEN FieldByName(self, g.bind[i].fname)
                            ELSE self.elems[g.bind[i].idx + 1]], <<>>)
    IN  IF g.visitor.vk = "none" THEN NoVis
        ELSE Vis(g.visitor.vk, <<>>, -2, 0, value, g.visitor.arms, g.visitor.elt)

\* len() of a generated Visitor: Some($fields) / Some($len)
GenVisitor_len(g) == g.visitor.len

\* the generated impl Serialize of a derived struct: { $body }
Serialize_derived_struct(v) ==
    LET g == serialize_item_struct(v.name, v.decl)
    IN  {Call(Ev(g.m, g.ty, g.idx, g.vname, "", v, GenVisitor_len(g)),
              GenVisitor_new(g, v), <<>>)}

\* the generated impl Serialize of a derived enum: match *self { $arms }
Serialize_derived_enum(v) ==
    LET arms == serialize_item_enum(v.name, v.decl)
        hit == {i \in DOMAIN arms : arms[i].pat = v.decl[v.x + 1].name}
        g == arms[CHOOSE i \in hit : \A j \in hit : i <= j].body
    IN  {Call(Ev(g.m, g.ty, g.idx, g.vname, "", v, GenVisitor_len(g)),
              GenVisitor_new(g, v), <<>>)}


\* A caller of the public constructors: serializer.visit_seq(
\* SeqIteratorVisitor::new(iter, len)) over any iteration source and any length
\* hint (v.elems the answers of the source, v.x the hint), and the same for
\* MapIteratorVisitor::new and visit_map
UserSeq(v) ==
    LET vis == SeqIteratorVisitor_new(v.elems, v.x)
    IN  {Call(Ev("visit_seq", "", -1, "", "", v, SeqIteratorVisitor_len(vis)), vis, <<>>)}
UserMap(v) ==
    LET vis == MapIteratorVisitor_new(v.elems, v.x)
    IN  {Call(Ev("visit_map", "", -1, "", "", v, MapIteratorVisitor_len(vis)), vis, <<>>)}

\* <T as Serialize>::serialize, by the type of the value
SerializeBody(v) ==
    CASE v.kind = "prim" -> impl_visit(v)
      [] v.kind = "str" -> Serialize_str(v)
      [] v.kind = "String" -> Serialize_String(v)
      [] v.kind = "Option" -> Serialize_Option(v)
      [] v.kind = "slice" -> Serialize_slice(v)
      [] v.kind = "array" -> array_impls(v)
      [] v.kind = "Vec" -> Serialize_Vec(v)
      [] v.kind = "BTreeSet" -> Serialize_BTreeSet(v)
      [] v.kind = "HashSet" -> Serialize_HashSet(v)
      [] v.kind = "unit" -> Serialize_unit(v)
      [] v.kind = "tuple" -> Serialize_tuple(v)
      [] v.kind = "BTreeMap" -> Serialize_BTreeMap(v)
      [] v.kind = "HashMap" -> Serialize_HashMap(v)
      [] v.kind \in Wrappers -> Serialize_deref(v)
      [] v.kind \in {"Path", "PathBuf"} -> Serialize_Path(v)
      [] v.kind = "struct" -> Serialize_derived_struct(v)
      [] v.kind = "enum" -> Serialize_derived_enum(v)
      [] v.kind = "UserSeq" -> UserSeq(v)
      [] v.kind = "UserMap" -> UserMap(v)

\* <Visitor as SeqVisitor / MapVisitor>::visit, by the type of the visitor
VisitBody(vis) ==
    CASE vis.vk = "SeqIteratorVisitor" -> SeqIteratorVisitor_visit(vis)
      [] vis.vk = "MapIteratorVisitor" -> MapIteratorVisitor_visit(vis)
      [] vis.vk = "TupleVisitor" -> TupleVisitor_visit(vis)
      [] vis.vk = "GenSeqVisitor" -> GenSeqVisitor_visit(vis)
      [] vis.vk = "GenMapVisitor" -> GenMapVisitor_visit(vis)

\* VisitResult with the result of the element callback dropped:
\* let _ = serializer.visit_.._elt(..); Ok(Some(()))
VisitResult_dropped(r) == "OkSome"

\* Ok(Some(try!(serializer.visit_.._elt(..)))): try! returns the failure from
\* visit (through From::from, the identity on S::Error), Ok(()) becomes Ok(Some(()))
VisitResult(r) == IF r = "Ok" THEN "OkSome" ELSE r

\* serialize returns the value of its tail expression, the call it made
SerializeResult(r) == r

\* ------------------------------------------------------------------ state

VARIABLES
    root,      \* the value of the top-level serialize call
    stack,     \* the call stack: serialize bodies, Serializer methods, visits
    log,       \* every Serializer call the library has made, in call order
    ret,       \* the value being returned to the top frame ("none": no return)
    result,    \* what the top-level call returned ("pending" until it has)
    entries,   \* entry calls the top-level serialize had made when it ended
    fails,     \* failures the encoder has originated
    firstFail, \* the first failure an encoder call returned, and the length of log then
    swallowed  \* the encoder went on after a visit reported a failure

vars == <<root, stack, log, ret, result, entries, fails, firstFail, swallowed>>

\* A stack frame.
\*   k "ser": a serialize body on value v; pc "call" before its call, "wait"
\*     after; n counts the entry calls it has made, itself or through the
\*     serialize it delegated to, and li is the last of them in log.
\*   k "enc": a Serializer method running; li its call in log, vis the visitor
\*     it owns, todo the values it has still to serialize, h the results of its
\*     pulls so far, deliv the element callbacks its visitor has made (their
\*     places in log), late its
\*     pulls after a report of exhaustion or failure; pc "run", "nested" (in a
\*     nested serialize) or "pull" (in visit).
\*   k "visit": a visit on the visitor of the frame below; pc "call" before
\*     its element callback, "wait" during it.
Frame(k, v, pc, li, vis, todo) ==
    [k |-> k, v |-> v, pc |-> pc, li |-> li, n |-> 0, vis |-> vis, todo |-> todo,
     h |-> <<>>, deliv |-> <<>>, late |-> 0]
SerFrame(v) == Frame("ser", v, "call", 0, NoVis, <<>>)
EncFrame(li, vis, todo) == Frame("enc", UnitV, "run", li, vis, todo)
VisitFrame == Frame("visit", UnitV, "call", 0, NoVis, <<>>)

Top == stack[Len(stack)]
Pop(s) == SubSeq(s, 1, Len(s) - 1)
SetTop(s, f) == [s EXCEPT ![Len(s)] = f]
Returned(r) == [log EXCEPT ![Top.li].res = r]
NoteFailure(r) ==
    IF r \in Errors /\ firstFail.e = "none" THEN [at |-> Len(log), e |-> r] ELSE firstFail

\* ------------------------------------------------------------- the values

Ints == {I32(1), I32(2), I32(3)}
Tup(es) == V("tuple", "", 0, es, <<>>)
Array(es) == V("array", "", Len(es), es, <<>>)
Struct(type_ident, names, vals) ==
    V("struct", type_ident, 0, vals, [i \in DOMAIN names |-> FieldDecl(names[i])])
Enum(type_ident, variants, tag, vals) == V("enum", type_ident, tag, vals, variants)

Scalars ==
    {Prim(ty, x) : ty \in PrimTypes, x \in {0, 1}}
      \cup {Str(0), Str(1), StringV(0), StringV(1), UnitV}
Seqs ==
    {Coll(k, es) : k \in {"slice", "Vec"}, es \in SeqsUpTo({I32(1), I32(2)}, MaxLen)}
      \cup {Array(es) : es \in SeqsUpTo({I32(1), I32(2)}, MaxLen)}
\* the keys inserted into a set or a map, in insertion order: every order of
\* every choice of distinct keys, and some orders that insert a key twice
Insertions(S) ==
    {s \in SeqsUpTo(S, MaxLen) : IsInjective(s)}
      \cup {s \in SeqsUpTo(S, MaxLen) : Len(s) = 3 /\ s[1] = s[3]}
Sets == {Coll(k, es) : k \in {"BTreeSet", "HashSet"}, es \in Insertions(Ints)}
MapPairs == {Pair(I32(k), Str(k)) : k \in 1..3}
Maps == {Coll(k, es) : k \in {"BTreeMap", "HashMap"}, es \in Insertions(MapPairs)}
Tuples == {Tup([i \in 1..n |-> I32(i)]) : n \in 1..MaxTupleArity}
Options == {OptNone, OptSome(I32(1)), OptSome(OptNone), OptSome(Coll("Vec", <<I32(1), I32(2)>>))}
Pointees == {I32(1), StringV(1), Coll("Vec", <<I32(1), I32(2)>>), Tup(<<I32(1), Str(0)>>)}
Wrapped ==
    {Wrap(w, v) : w \in Wrappers, v \in Pointees}
      \cup {Wrap(w, Wrap(u, I32(1))) : w \in Wrappers, u \in Wrappers}
Paths == {PathV(k, x) : k \in {"Path", "PathBuf"}, x \in {-1, 0, 1}}

FieldNames == {"x", "y", "z"}
FieldVals(n) == [i \in 1..n |-> IF i = 2 THEN Str(1) ELSE I32(i)]
Structs ==
    {Struct("S", names, FieldVals(Len(names))) :
        names \in {s \in SeqsUpTo(FieldNames, MaxFields) : IsInjective(s)}}
      \cup {Struct("T", [i \in 1..n |-> ""], FieldVals(n)) : n \in 1..MaxFields}
\* a struct definition holding a named and an unnamed field
MixedStructs == {Struct("M", <<"x", "">>, FieldVals(2)), Struct("M", <<"", "x">>, FieldVals(2))}

UnitVariant == VariantDecl("Unit", "tuple", <<>>)
PairVariant == VariantDecl("Pair", "tuple", <<FieldDecl(""), FieldDecl("")>>)
NamedVariant == VariantDecl("Named", "struct", <<FieldDecl("a"), FieldDecl("b")>>)
EnumDecls == {d \in SeqsUpTo({UnitVariant, PairVariant, NamedVariant}, 3) : d # <<>> /\ IsInjective(d)}
Payload(variant) == [i \in DOMAIN variant.fields |-> I32(4 + i)]
Enums ==
    UNION {{Enum("E", d, tag, Payload(d[tag + 1])) : tag \in 0..(Len(d) - 1)} : d \in EnumDecls}
Nested ==
    {Coll("Vec", <<Coll("Vec", <<I32(1)>>), Coll("Vec", <<>>)>>),
     Tup(<<Coll("BTreeSet", <<I32(2), I32(1)>>), OptSome(I32(1))>>),
     Struct("S", <<"x", "y">>, <<Tup(<<I32(1), I32(2)>>), Wrap("Box", I32(3))>>),
     Coll("slice", <<Enum("E", <<UnitVariant, PairVariant>>, 1, <<I32(5), I32(6)>>),
                     Enum("E", <<UnitVariant, PairVariant>>, 0, <<>>)>>),
     Coll("BTreeMap", <<Pair(I32(2), Coll("Vec", <<I32(1)>>)), Pair(I32(1), Tup(<<I32(1)>>))>>)}
\* iteration sources of any kind: an answer is an item or None (NoItem)
UserIters ==
    {V("UserSeq", "", hint, script, <<>>) :
        hint \in -1..1, script \in SeqsUpTo({I32(1), NoItem}, MaxLen)}
      \cup {V("UserMap", "", hint, script, <<>>) :
        hint \in -1..1, script \in SeqsUpTo({Pair(I32(1), Str(1)), NoItem}, MaxLen)}

\* the same composite value serialized twice in a row (by the entry point of
\* the slice that holds it twice)
Repeated ==
    {Coll("slice", <<t, t>>) :
        t \in {Tup(<<I32(1), I32(2)>>), Struct("T", <<"", "">>, FieldVals(2)),
               Coll("Vec", <<I32(1), I32(2)>>)}}

Derived == Structs \cup MixedStructs \cup Enums
Roots ==
    Scalars \cup Seqs \cup Sets \cup Maps \cup Tuples \cup Options \cup Wrapped
      \cup Paths \cup Derived \cup Nested \cup UserIters \cup Repeated

\* -------------------------------------------------------------- the steps

Init ==
    /\ root \in Roots
    /\ stack = IF root \in Derived THEN <<>> ELSE <<SerFrame(root)>>
    /\ log = <<>>
    /\ ret = "none"
    /\ result = IF root \in Derived THEN "derive" ELSE "pending"
    /\ entries = 0
    /\ fails = 0
    /\ firstFail = [at |-> 0, e |-> "none"]
    /\ swallowed = FALSE

\* serialize_body: the body #[derive(Serialize)] generates for an item, or
\* cx.bug, which aborts the expansion
serialize_body(item) ==
    IF item.kind = "struct"
    THEN serialize_item_struct(item.name, item.decl).shape
    ELSE IF \E i \in DOMAIN item.decl :
                serialize_item_enum(item.name, item.decl)[i].body.shape = "bug"
         THEN "bug" ELSE "call"

\* expand_derive_serialize on the declaration of root's type: the impl is
\* pushed, and the value can then be serialized, unless the expansion aborted
expand_derive_serialize ==
    /\ result = "derive"
    /\ IF serialize_body(root) = "bug"
       THEN /\ result' = "bug"
            /\ stack' = stack
       ELSE /\ result' = "pending"
            /\ stack' = <<SerFrame(root)>>
    /\ UNCHANGED <<root, log, ret, entries, fails, firstFail, swallowed>>

\* a serialize body runs up to its one call
Serialize ==
    /\ stack # <<>> /\ Top.k = "ser" /\ Top.pc = "call"
    /\ \E o \in SerializeBody(Top.v) :
         CASE o.act = "call" ->
                /\ log' = Append(log, o.ev)
                /\ stack' = Append(SetTop(stack, [Top EXCEPT !.pc = "wait", !.li = Len(log) + 1,
                                                              !.n = Top.n + 1]),
                                   EncFrame(Len(log) + 1, o.vis, o.todo))
                /\ UNCHANGED <<result, entries>>
           [] o.act = "delegate" ->
                /\ stack' = Append(SetTop(stack, [Top EXCEPT !.pc = "wait"]), SerFrame(o.to))
                /\ UNCHANGED <<log, result, entries>>
           [] o.act = "panic" ->
                /\ stack' = <<>>
                /\ result' = "panic"
                /\ entries' = stack[1].n
                /\ UNCHANGED log
    /\ UNCHANGED <<root, ret, fails, firstFail, swallowed>>

\* a serialize body returns what its call returned
SerializeReturn ==
    /\ stack # <<>> /\ Top.k = "ser" /\ Top.pc = "wait" /\ ret # "none"
    /\ IF Len(stack) = 1
       THEN /\ result' = SerializeResult(ret)
            /\ entries' = Top.n
            /\ ret' = "none"
            /\ stack' = <<>>
       ELSE /\ ret' = SerializeResult(ret)
            /\ stack' = LET below == stack[Len(stack) - 1]
                        IN  IF below.k = "ser"
                            THEN SetTop(Pop(stack), [below EXCEPT !.n = below.n + Top.n,
                                                                 !.li = Top.li])
                            ELSE Pop(stack)
            /\ UNCHANGED <<result, entries>>
    /\ UNCHANGED <<root, log, fails, firstFail, swallowed>>

\* the encoder serializes the value (the element, the key, the value) it was passed
EncoderRecurse ==
    /\ stack # <<>> /\ Top.k = "enc" /\ Top.pc = "run" /\ Top.todo # <<>>
    /\ stack' = Append(SetTop(stack, [Top EXCEPT !.pc = "nested", !.todo = Tail(Top.todo)]),
                       SerFrame(Head(Top.todo)))
    /\ UNCHANGED <<root, log, ret, result, entries, fails, firstFail, swallowed>>

\* the nested serialize has returned: the encoder goes on, or returns its failure
EncoderResume ==
    /\ stack # <<>> /\ Top.k = "enc" /\ Top.pc = "nested" /\ ret # "none"
    /\ IF ret = "Ok"
       THEN /\ stack' = SetTop(stack, [Top EXCEPT !.pc = "run"])
            /\ ret' = "none"
            /\ log' = log
       ELSE /\ stack' = Pop(stack)
            /\ ret' = ret
            /\ log' = Returned(ret)
    /\ UNCHANGED <<root, result, entries, fails, firstFail, swallowed>>

\* the entry point pulls its visitor
EncoderPull ==
    /\ stack # <<>> /\ Top.k = "enc" /\ Top.pc = "run" /\ Top.todo = <<>>
    /\ Top.vis.vk # "none"
    /\ LET isLate == Top.h # <<>> /\ Last(Top.h) # "OkSome"
       IN  /\ isLate => Top.late < MaxLatePulls
           /\ stack' = Append(SetTop(stack, [Top EXCEPT !.pc = "pull",
                                  !.late = IF isLate THEN Top.late + 1 ELSE Top.late]),
                              VisitFrame)
           /\ swallowed' = (swallowed \/ (Top.h # <<>> /\ Last(Top.h) \in Errors))
    /\ UNCHANGED <<root, log, ret, result, entries, fails, firstFail>>

\* visit has returned to the entry point
EncoderReceive ==
    /\ stack # <<>> /\ Top.k = "enc" /\ Top.pc = "pull" /\ ret # "none"
    /\ stack' = SetTop(stack, [Top EXCEPT !.pc = "run", !.h = Append(Top.h, ret)])
    /\ ret' = "none"
    /\ UNCHANGED <<root, log, result, entries, fails, firstFail, swallowed>>

\* a Serializer method returns: Ok, a failure of its own, or the failure its
\* last pull reported (which it may also swallow)
EncoderReturn ==
    /\ stack # <<>> /\ Top.k = "enc" /\ Top.pc = "run" /\ Top.todo = <<>>
    /\ \E r \in {"Ok"} \cup Errors :
         /\ IF Top.h # <<>> /\ Last(Top.h) \in Errors
            THEN /\ r \in {"Ok", Last(Top.h)}
                 /\ swallowed' = (swallowed \/ r = "Ok")
                 /\ fails' = fails
            ELSE /\ r \in Errors => fails < MaxFailures
                 /\ fails' = IF r \in Errors THEN fails + 1 ELSE fails
                 /\ swallowed' = swallowed
         /\ ret' = r
         /\ log' = Returned(r)
         /\ firstFail' = NoteFailure(r)
         /\ stack' = Pop(stack)
    /\ UNCHANGED <<root, result, entries>>

\* visit runs up to its element callback, or returns Ok(None)
Visit ==
    /\ stack # <<>> /\ Top.k = "visit" /\ Top.pc = "call"
    /\ LET owner == stack[Len(stack) - 1]
           o == VisitBody(owner.vis)
       IN  IF o.act = "elt"
           THEN /\ log' = Append(log, o.ev)
                /\ stack' = Append([stack EXCEPT
                                      ![Len(stack) - 1] = [owner EXCEPT !.vis = o.vis,
                                                              !.deliv = Append(owner.deliv, Len(log) + 1)],
                                      ![Len(stack)] = [Top EXCEPT !.pc = "wait", !.li = Len(log) + 1]],
                                   EncFrame(Len(log) + 1, NoVis, o.todo))
                /\ ret' = ret
           ELSE /\ log' = log
                /\ stack' = Pop([stack EXCEPT ![Len(stack) - 1] = [owner EXCEPT !.vis = o.vis]])
                /\ ret' = "OkNone"
    /\ UNCHANGED <<root, result, entries, fails, firstFail, swallowed>>

\* the element callback has returned: visit returns
VisitReturn ==
    /\ stack # <<>> /\ Top.k = "visit" /\ Top.pc = "wait" /\ ret # "none"
    /\ ret' = VisitResult(ret)
    /\ stack' = Pop(stack)
    /\ UNCHANGED <<root, log, result, entries, fails, firstFail, swallowed>>

Next ==
    \/ expand_derive_serialize
    \/ Serialize
    \/ SerializeReturn
    \/ EncoderRecurse
    \/ EncoderResume
    \/ EncoderPull
    \/ EncoderReceive
    \/ EncoderReturn
    \/ Visit
    \/ VisitReturn

Spec == Init /\ [][Next]_vars

\* An entry point that pulls its visitor until the visitor reports exhaustion
\* or a failure, and then returns: it pulls only while the last pull returned
\* an element, and returns only once a pull has not
ObedientPull ==
    /\ stack # <<>> /\ Top.k = "enc"
    /\ IF Top.h = <<>> THEN TRUE ELSE Last(Top.h) = "OkSome"
    /\ Len(Top.h) < MaxPulls
    /\ EncoderPull

ObedientReturn ==
    /\ stack # <<>> /\ Top.k = "enc"
    /\ IF Top.vis.vk = "none" THEN TRUE
       ELSE IF Top.h = <<>> THEN FALSE ELSE Last(Top.h) # "OkSome"
    /\ EncoderReturn

LiveNext ==
    \/ expand_derive_serialize
    \/ Serialize
    \/ SerializeReturn
    \/ EncoderRecurse
    \/ EncoderResume
    \/ ObedientPull
    \/ EncoderReceive
    \/ ObedientReturn
    \/ Visit
    \/ VisitReturn

\* The call is synchronous and single-threaded: whatever code is running goes
\* on running, so a step that can be taken is taken
LiveSpec == Init /\ [][LiveNext]_vars /\ WF_vars(LiveNext)

\* ------------------------------------------------------- reading a state

\* the value whose serialize made the call of frame i: the value of the
\* serialize frame right below it, or the Vec whose serialize delegated to
\* that one's slice
SerOf(i) ==
    IF i >= 3 /\ stack[i - 2].k = "ser" /\ stack[i - 2].v.kind = "Vec"
    THEN stack[i - 2].v
    ELSE stack[i - 1].v
Entry(i) == log[stack[i].li]
EntryFrames == {i \in DOMAIN stack : stack[i].k = "enc" /\ stack[i].vis.vk # "none"}
Delivered(i) == [k \in DOMAIN stack[i].deliv |-> log[stack[i].deliv[k]]]
NumOf(h, r) == Cardinality({k \in DOMAIN h : h[k] = r})
Failed(h) == \E k \in DOMAIN h : h[k] \in Errors
Finished == result \in {"Ok", "panic"} \cup Errors
CounterVisitors == {"TupleVisitor", "GenSeqVisitor", "GenMapVisitor"}
IteratorVisitors == {"SeqIteratorVisitor", "MapIteratorVisitor"}
\* a visit is about to run on a visitor of one of the kinds K that has already
\* returned Ok(None)
PullOnExhausted(K) ==
    /\ stack # <<>> /\ Top.k = "visit" /\ Top.pc = "call"
    /\ stack[Len(stack) - 1].vis.vk \in K
    /\ "OkNone" \in Range(stack[Len(stack) - 1].h)

\* ---------------------------------------------------------------- claims

\* C1: one call of serialize makes exactly one entry call on the encoder,
\* never zero and never more than one, for every adapter (Path and PathBuf
\* among them) and every derived type, also through delegation: a serialize
\* call never has more than one entry call to its name, and has exactly one
\* when it returns or otherwise ends.
C1_ExactlyOneEntryCall ==
    /\ \A i \in DOMAIN stack : stack[i].k = "ser" => stack[i].n <= 1
    /\ (stack # <<>> /\ Top.k = "ser" /\ Top.pc = "wait" /\ ret # "none") => Top.n = 1
    /\ Finished => entries = 1

\* C2: a failure returned by an encoder call is returned unchanged by the
\* enclosing visit and by the enclosing serialize, and the library makes no
\* encoder call after it.  Three parts: visit returns what its element
\* callback returned (Ok as Ok(Some)); serialize returns what its entry call
\* returned; and, the encoder itself passing on the failures its pulls report,
\* after the first failure no call is added to the log and the failure travels
\* unchanged up to the result of the top-level call.
C2_FailurePropagates ==
    /\ (stack # <<>> /\ Top.k = "enc" /\ Top.pc = "pull" /\ ret \notin {"none", "OkNone"}) =>
          LET r == log[Last(Top.deliv)].res
          IN  ret = IF r = "Ok" THEN "OkSome" ELSE r
    /\ (stack # <<>> /\ Top.k = "ser" /\ Top.pc = "wait" /\ ret # "none") =>
          ret = log[Top.li].res
    /\ (Finished /\ result # "panic") => result = log[1].res
    /\ (firstFail.e # "none" /\ ~swallowed) =>
          /\ Len(log) = firstFail.at
          /\ \/ result = firstFail.e
             \/ result = "pending" /\ ret = firstFail.e
             \/ /\ result = "pending" /\ ret = "none"
                /\ Top.k = "enc" /\ Top.pc = "run" /\ Top.h # <<>>
                /\ Last(Top.h) = firstFail.e

\* C2's case: an element callback of a nested visitor failed, and the failure
\* has reached the result of the top-level call
C2_Witness ==
    /\ result \in Errors /\ ~swallowed
    /\ Len(log) >= 4
    /\ log[Len(log)].res = result /\ log[1].res = result
    /\ \E i \in DOMAIN log : log[i].m = "visit_seq_elt" /\ log[i].res = result

\* C3: once a counter-driven visitor (a tuple visitor or a generated one) has
\* returned Ok(None), every later visit returns Ok(None), makes no encoder
\* call and leaves the visitor, its position counter included, unchanged.
C3_CounterExhaustionTerminal ==
    [][PullOnExhausted(CounterVisitors) =>
          /\ ret' = "OkNone"
          /\ log' = log
          /\ stack' = Pop(stack)]_vars

\* C3's case: a counter-driven visitor pulled again and again after exhaustion
C3_Witness ==
    \E i \in EntryFrames :
       /\ stack[i].vis.vk \in {"GenSeqVisitor", "GenMapVisitor"}
       /\ NumOf(stack[i].h, "OkNone") = 1 + MaxLatePulls
       /\ stack[i].vis.state = Len(stack[i].vis.arms)

\* C4: once an iterator visitor (SeqIteratorVisitor, MapIteratorVisitor, over
\* any iteration source) has returned Ok(None), every later visit returns
\* Ok(None) and makes no encoder call.
C4_IteratorExhaustionTerminal ==
    [][PullOnExhausted(IteratorVisitors) =>
          /\ ret' = "OkNone"
          /\ log' = log]_vars

\* C5: a sequence container (slice, Vec, array, BTreeSet, HashSet) of n
\* elements, n = 0 included, hands over a visitor whose len() is Some(n) (for
\* an array the length N of its type); while no pull has failed, pulls 1..n
\* each return an element and make exactly one visit_seq_elt callback, and
\* every pull after them reports exhaustion; and the call succeeds unless the
\* encoder fails it.
SeqContainers == {"slice", "Vec", "array", "BTreeSet", "HashSet"}
ElemCount(c) ==
    IF c.kind \in {"BTreeSet", "HashSet"} THEN Cardinality(Range(c.elems)) ELSE Len(c.elems)
C5_SeqLength ==
    /\ \A i \in EntryFrames : SerOf(i).kind \in SeqContainers =>
          LET f == stack[i]
              n == ElemCount(SerOf(i))
          IN  /\ Entry(i).m = "visit_seq"
              /\ Entry(i).len = n /\ SeqIteratorVisitor_len(f.vis) = n
              /\ SerOf(i).kind = "array" => Entry(i).len = SerOf(i).x
              /\ ~Failed(f.h) =>
                    /\ \A k \in DOMAIN f.h : f.h[k] = IF k <= n THEN "OkSome" ELSE "OkNone"
                    /\ f.pc = "run" => Len(f.deliv) = NumOf(f.h, "OkSome")
                    /\ \A k \in DOMAIN f.deliv : Delivered(i)[k].m = "visit_seq_elt"
    /\ (root.kind \in SeqContainers /\ Finished /\ fails = 0) => result = "Ok"

\* C5's case: a container of MaxLen elements pulled past its exhaustion
C5_Witness ==
    \E i \in EntryFrames :
       /\ SerOf(i).kind = "Vec" /\ Len(SerOf(i).elems) = MaxLen
       /\ Len(stack[i].h) = MaxLen + 2 /\ ~Failed(stack[i].h)
       /\ Len(stack[i].deliv) = MaxLen

\* C6: the elements of a BTreeSet and the pairs of a BTreeMap arrive at the
\* encoder in strictly ascending key order whatever the insertion order was,
\* each of them at most once, and all of them once the visitor has reported
\* exhaustion with no pull failed.
C6_BTreeAscending ==
    \A i \in EntryFrames : SerOf(i).kind \in {"BTreeSet", "BTreeMap"} =>
       LET d == Delivered(i)
           keys == {KeyOf(e) : e \in Range(SerOf(i).elems)}
       IN  /\ \A a, b \in DOMAIN d : a < b => KeyOf(d[a].val) < KeyOf(d[b].val)
           /\ \A a \in DOMAIN d : d[a].val \in Range(SerOf(i).elems)
           /\ ("OkNone" \in Range(stack[i].h) /\ ~Failed(stack[i].h)) =>
                 {KeyOf(d[a].val) : a \in DOMAIN d} = keys

\* C6's case: keys inserted as 3, 1, 2 and visited as 1, 2, 3
C6_Witness ==
    \E i \in EntryFrames :
       /\ SerOf(i) = Coll("BTreeSet", <<I32(3), I32(1), I32(2)>>)
       /\ [k \in DOMAIN stack[i].deliv |-> Delivered(i)[k].val] = <<I32(1), I32(2), I32(3)>>
       /\ Last(stack[i].h) = "OkNone"

\* C7: serialize of a scalar (bool, the integers, the floats, char, str) and
\* of () makes exactly one encoder call, the visit_<type> of its own type
\* (visit_unit for ()), passing the value itself, and no other call.
VisitOf ==
    [bool |-> "visit_bool", isize |-> "visit_isize", i8 |-> "visit_i8",
     i16 |-> "visit_i16", i32 |-> "visit_i32", i64 |-> "visit_i64",
     usize |-> "visit_usize", u8 |-> "visit_u8", u16 |-> "visit_u16",
     u32 |-> "visit_u32", u64 |-> "visit_u64", f32 |-> "visit_f32",
     f64 |-> "visit_f64", char |-> "visit_char", str |-> "visit_str"]
C7_OnePrimitiveEvent ==
    /\ \A i \in DOMAIN stack :
          (stack[i].k = "ser" /\ stack[i].v.kind \in {"prim", "str", "unit"}
             /\ stack[i].pc = "wait") =>
             /\ stack[i].n = 1
             /\ stack[i].li = Len(log)
             /\ log[stack[i].li].val = stack[i].v
             /\ log[stack[i].li].m =
                   IF stack[i].v.kind = "unit" THEN "visit_unit" ELSE VisitOf[stack[i].v.name]
    /\ (root.kind \in {"prim", "str", "unit"} /\ Finished) =>
          /\ Len(log) = 1 /\ entries = 1
          /\ log[1].val = root
          /\ log[1].m = IF root.kind = "unit" THEN "visit_unit" ELSE VisitOf[root.name]

\* C7's case: an f32 has been serialized
C7_Witness ==
    /\ root = Prim("f32", 1) /\ result = "Ok"
    /\ Len(log) = 1 /\ log[1].m = "visit_f32" /\ log[1].val.x = 1

\* C8: a tuple of arity n in 1..12 hands the encoder (visit_tuple) a visitor
\* over that tuple whose counter starts at 0; pull k, k = 1..n, increments the
\* counter and passes slot k-1 to visit_seq_elt, so the slots arrive in
\* positional order, each once; every pull after pull n reports exhaustion.
C8_TupleOrder ==
    \A i \in EntryFrames : stack[i].vis.vk = "TupleVisitor" =>
       LET f == stack[i]
           t == SerOf(i)
           n == Len(t.elems)
           d == Delivered(i)
       IN  /\ Entry(i).m = "visit_tuple" /\ t.kind = "tuple" /\ f.vis.value = t
           /\ n \in 1..MaxTupleArity
           /\ f.vis.state = Len(d) /\ Len(d) <= n
           /\ \A k \in DOMAIN d : d[k].m = "visit_seq_elt" /\ d[k].val = t.elems[k]
           /\ \A k \in DOMAIN f.h : (f.h[k] = "OkNone") <=> (k > n)
           /\ f.pc = "run" => Len(d) = Min(Len(f.h), n)

\* C8's case: a 12-tuple pulled 13 times
C8_Witness ==
    \E i \in EntryFrames :
       /\ stack[i].vis.vk = "TupleVisitor" /\ stack[i].vis.state = MaxTupleArity
       /\ Len(stack[i].h) = MaxTupleArity + 1 /\ Last(stack[i].h) = "OkNone"
       /\ NumOf(stack[i].h, "OkSome") = MaxTupleArity

\* C9: a struct with named fields f1..fn emits one visit_named_map event that
\* carries the struct's type name and a visitor with len() = Some(n); pull k
\* passes (name of fk, value of fk) to visit_named_map_elt, in declaration
\* order, each field once; every pull after pull n reports exhaustion.
AllNamed(c) == c.decl # <<>> /\ \A k \in DOMAIN c.decl : c.decl[k].kind = "named"
C9_StructFieldsInOrder ==
    /\ \A i \in DOMAIN stack :
          (stack[i].k = "ser" /\ stack[i].v.kind = "struct" /\ AllNamed(stack[i].v)
             /\ stack[i].pc = "wait") =>
             /\ stack[i].n = 1
             /\ log[stack[i].li].m = "visit_named_map"
             /\ log[stack[i].li].ty = stack[i].v.name
             /\ log[stack[i].li].len = Len(stack[i].v.decl)
    /\ \A i \in EntryFrames : Entry(i).m = "visit_named_map" =>
          LET f == stack[i]
              c == SerOf(i)
              n == Len(c.decl)
              d == Delivered(i)
          IN  /\ c.kind = "struct" /\ AllNamed(c)
              /\ Len(d) <= n
              /\ \A k \in DOMAIN d :
                    /\ d[k].m = "visit_named_map_elt"
                    /\ d[k].key = c.decl[k].name
                    /\ d[k].val = c.elems[k]
              /\ \A k \in DOMAIN f.h : (f.h[k] = "OkNone") <=> (k > n)
              /\ f.pc = "run" => Len(d) = Min(Len(f.h), n)

\* C9's case: S { x: 1, y: "a" } pulled to exhaustion
C9_Witness ==
    \E i \in EntryFrames :
       /\ SerOf(i) = Struct("S", <<"x", "y">>, <<I32(1), Str(1)>>)
       /\ stack[i].h = <<"OkSome", "OkSome", "OkNone">>
       /\ Delivered(i)[1].key = "x" /\ Delivered(i)[2].key = "y"

\* C10: for a value of variant V the encoder is passed the enum's type name,
\* V's zero-based position in the declaration and V's name; the arms of one
\* enum carry pairwise distinct indices; and the payload of a tuple variant is
\* pulled in positional order.
C10_VariantIndex ==
    /\ \A i \in DOMAIN stack :
          (stack[i].k = "ser" /\ stack[i].v.kind = "enum" /\ stack[i].pc = "wait") =>
             LET c == stack[i].v
                 e == log[stack[i].li]
             IN  /\ e.idx = c.x
                 /\ e.ty = c.name
                 /\ e.vname = c.decl[c.x + 1].name
                 /\ e.m \in {"visit_enum_unit", "visit_enum_seq", "visit_enum_map"}
    /\ root.kind = "enum" =>
          LET arms == serialize_item_enum(root.name, root.decl)
          IN  \A a, b \in DOMAIN arms : a # b => arms[a].body.idx # arms[b].body.idx
    /\ \A i \in EntryFrames : Entry(i).m = "visit_enum_seq" =>
          LET d == Delivered(i)
          IN  /\ Len(d) <= Len(SerOf(i).elems)
              /\ \A k \in DOMAIN d : d[k].val = SerOf(i).elems[k]
              /\ stack[i].pc = "run" =>
                    Len(d) = Min(Len(stack[i].h), Len(SerOf(i).elems))

\* C10's case: Pair(5, 6), the second of [Unit, Pair(i32, i32), Named{..}]
C10_Witness ==
    \E i \in EntryFrames :
       /\ SerOf(i) = Enum("E", <<UnitVariant, PairVariant, NamedVariant>>, 1, <<I32(5), I32(6)>>)
       /\ Entry(i).m = "visit_enum_seq" /\ Entry(i).idx = 1 /\ Entry(i).vname = "Pair"
       /\ [k \in DOMAIN stack[i].deliv |-> Delivered(i)[k].val] = <<I32(5), I32(6)>>
       /\ Last(stack[i].h) = "OkNone"

\* C11: serialize of an enum value dispatches on the shape of its runtime
\* variant, exactly one arm of the generated match firing: a variant without
\* payload makes one visit_enum_unit call that hands over no visitor and has no
\* child call; a variant with positional payload makes one visit_enum_seq call
\* with a visitor over the payload values; a variant with named fields makes
\* one visit_enum_map call whose visitor passes (field name, field value) in
\* declaration order.
RuntimeVariant(c) == c.decl[c.x + 1]
C11_EnumDispatch ==
    /\ \A i \in DOMAIN stack :
          (stack[i].k = "ser" /\ stack[i].v.kind = "enum" /\ stack[i].pc = "wait") =>
             LET c == stack[i].v
                 variant == RuntimeVariant(c)
                 e == log[stack[i].li]
                 arms == serialize_item_enum(c.name, c.decl)
             IN  /\ stack[i].n = 1
                 /\ Cardinality({a \in DOMAIN arms : arms[a].pat = variant.name}) = 1
                 /\ e.m = CASE variant.fields = <<>> -> "visit_enum_unit"
                            [] variant.fields # <<>> /\ variant.kind = "tuple" -> "visit_enum_seq"
                            [] OTHER -> "visit_enum_map"
                 /\ (variant.fields = <<>>) <=> (e.len = -2)
                 /\ (variant.fields = <<>> /\ i < Len(stack)) =>
                       /\ stack[i + 1].k = "enc" /\ stack[i + 1].vis = NoVis
                       /\ stack[i + 1].todo = <<>> /\ Len(stack) = i + 1
                       /\ Len(log) = stack[i].li
    /\ \A i \in EntryFrames : SerOf(i).kind = "enum" =>
          LET c == SerOf(i)
              variant == RuntimeVariant(c)
              d == Delivered(i)
          IN  /\ variant.fields # <<>>
              /\ stack[i].vis.value.elems = c.elems
              /\ stack[i].vis.vk = IF variant.kind = "tuple" THEN "GenSeqVisitor"
                                   ELSE "GenMapVisitor"
              /\ Len(d) <= Len(c.elems)
              /\ \A k \in DOMAIN d :
                    /\ d[k].val = c.elems[k]
                    /\ variant.kind = "struct" =>
                          /\ d[k].m = "visit_named_map_elt"
                          /\ d[k].key = variant.fields[k].name
              /\ stack[i].pc = "run" => Len(d) = Min(Len(stack[i].h), Len(c.elems))

\* C11's case: Named { a: 5, b: 6 }, the third of [Unit, Pair(..), Named {..}],
\* pulled to exhaustion
C11_Witness ==
    \E i \in EntryFrames :
       /\ SerOf(i) = Enum("E", <<UnitVariant, PairVariant, NamedVariant>>, 2, <<I32(5), I32(6)>>)
       /\ Entry(i).m = "visit_enum_map"
       /\ stack[i].h = <<"OkSome", "OkSome", "OkNone">>
       /\ Delivered(i)[1].key = "a" /\ Delivered(i)[2].key = "b"

\* C12: serializing an ownership-transparent wrapper (&T, &mut T, Box, Rc,
\* Arc, nested in any way) of v makes exactly the encoder calls, with the same
\* arguments and the same result, that serializing v makes.  The wrapper's
\* serialize step logs nothing and leaves on top of the stack the serialize of
\* v itself, which then runs as it does when called directly; when that
\* returns, the wrapper returns the same result without a call; so the one
\* entry call to the wrapper's name is the entry call of v's own serialize.
Pointee(v) == IF v.kind \in Wrappers THEN v.elems[1] ELSE v
Innermost(v) == Pointee(Pointee(v))
OwnEntryCalls(v) ==
    UNION {IF o.act = "call" THEN {o.ev}
           ELSE IF o.act = "delegate"
                THEN {p.ev : p \in {q \in SerializeBody(o.to) : q.act = "call"}}
                ELSE {} : o \in SerializeBody(v)}
WrapperRuns == stack # <<>> /\ Top.k = "ser" /\ Top.v.kind \in Wrappers
C12_WrapperStep ==
    /\ (WrapperRuns /\ Top.pc = "call") =>
          /\ stack' = Append(SetTop(stack, [Top EXCEPT !.pc = "wait"]),
                             SerFrame(Pointee(Top.v)))
          /\ log' = log /\ ret' = ret /\ result' = result
    /\ (WrapperRuns /\ Top.pc = "wait") =>
          /\ log' = log
          /\ IF Len(stack) = 1 THEN result' = ret ELSE ret' = ret /\ result' = result
C12_WrapperState ==
    /\ \A i \in DOMAIN stack :
          (stack[i].k = "ser" /\ stack[i].v.kind \in Wrappers) =>
             /\ stack[i].n <= 1
             /\ (stack[i].pc = "wait" /\ i < Len(stack)) =>
                   /\ stack[i + 1].k = "ser" /\ stack[i + 1].v = Pointee(stack[i].v)
                   /\ stack[i + 1].n = 1 => log[stack[i + 1].li].val.kind \notin Wrappers
             /\ stack[i].n = 1 =>
                   [log[stack[i].li] EXCEPT !.res = "pending"]
                      \in OwnEntryCalls(Innermost(stack[i].v))
    /\ (root.kind \in Wrappers /\ Finished) =>
          /\ entries = 1 /\ result = log[1].res
          /\ [log[1] EXCEPT !.res = "pending"] \in OwnEntryCalls(Innermost(root))
          /\ \A k \in DOMAIN log : log[k].val.kind \notin Wrappers
C12_WrapperTransparent == []C12_WrapperState /\ [][C12_WrapperStep]_vars

\* C12's case: an Arc<Vec<i32>> of two elements serialized to its end, with
\* the calls of the Vec and no other
C12_Witness ==
    /\ root = Wrap("Arc", Coll("Vec", <<I32(1), I32(2)>>)) /\ result = "Ok"
    /\ [k \in DOMAIN log |-> log[k].m] =
          <<"visit_seq", "visit_seq_elt", "visit_i32", "visit_seq_elt", "visit_i32">>
    /\ log[1].val = Coll("slice", <<I32(1), I32(2)>>)
    /\ log[3].val = I32(1) /\ log[5].val = I32(2)

\* C13: serialize of None makes one visit_none call and nothing else: no
\* visitor, no value passed on, no further call.  Serialize of Some(x) makes
\* one visit_some call that passes x and no visitor; x is serialized exactly
\* once, inside that call (by the encoder, which was handed x and nothing
\* else), never by the Option's serialize itself.
C13_OptionEvents ==
    /\ \A i \in DOMAIN stack :
          (stack[i].k = "ser" /\ stack[i].v.kind = "Option" /\ stack[i].pc = "wait") =>
             LET c == stack[i].v
                 li == stack[i].li
                 e == log[li]
             IN  /\ stack[i].n = 1
                 /\ e.len = -2
                 /\ i < Len(stack) => stack[i + 1].k = "enc" /\ stack[i + 1].vis = NoVis
                 /\ c.name = "None" =>
                       /\ e.m = "visit_none"
                       /\ Len(log) = li
                       /\ i < Len(stack) => stack[i + 1].todo = <<>> /\ Len(stack) = i + 1
                 /\ c.name = "Some" =>
                       /\ e.m = "visit_some" /\ e.val = c.elems[1]
                       /\ i < Len(stack) =>
                             /\ stack[i + 1].todo \in {<<c.elems[1]>>, <<>>}
                             /\ (stack[i + 1].todo # <<>>) => (Len(log) = li)
                             /\ (stack[i + 1].pc = "nested" /\ i + 1 < Len(stack)) =>
                                   /\ stack[i + 2].k = "ser"
                                   /\ stack[i + 2].v = c.elems[1]
                       /\ Len(log) > li =>
                             [log[li + 1] EXCEPT !.res = "pending"] \in OwnEntryCalls(c.elems[1])
                       /\ (i = Len(stack) /\ ret # "none") => Len(log) > li
    /\ (root = OptNone /\ Finished) =>
          Len(log) = 1 /\ log[1].m = "visit_none" /\ entries = 1
    /\ (root.kind = "Option" /\ root.name = "Some" /\ Finished) =>
          /\ entries = 1 /\ log[1].m = "visit_some" /\ log[1].val = root.elems[1]
          /\ \A k \in 2..Len(log) : log[k].m # "visit_some"

\* C13's case: Some(None) serialized: visit_some, and inside it the visit_none
\* of the nested value
C13_Witness ==
    /\ root = OptSome(OptNone) /\ result = "Ok"
    /\ [k \in DOMAIN log |-> log[k].m] = <<"visit_some", "visit_none">>
    /\ log[1].val = OptNone

\* C14: serialize of a struct with zero fields makes exactly one call,
\* visit_named_unit with the struct's type name, hands over no visitor and
\* passes no value, and no other call follows inside it.
C14_UnitStruct ==
    /\ \A i \in DOMAIN stack :
          (stack[i].k = "ser" /\ stack[i].v.kind = "struct" /\ stack[i].v.decl = <<>>
             /\ stack[i].pc = "wait") =>
             LET e == log[stack[i].li]
             IN  /\ stack[i].n = 1
                 /\ e.m = "visit_named_unit" /\ e.ty = stack[i].v.name
                 /\ e.len = -2
                 /\ Len(log) = stack[i].li
                 /\ i < Len(stack) =>
                       /\ stack[i + 1].k = "enc" /\ stack[i + 1].vis = NoVis
                       /\ stack[i + 1].todo = <<>> /\ Len(stack) = i + 1
    /\ (root.kind = "struct" /\ root.decl = <<>> /\ Finished) =>
          /\ Len(log) = 1 /\ entries = 1
          /\ log[1].m = "visit_named_unit" /\ log[1].ty = root.name
          /\ result = log[1].res

\* C14's case: struct S; has been serialized
C14_Witness ==
    /\ root = Struct("S", <<>>, <<>>) /\ result = "Ok"
    /\ Len(log) = 1 /\ log[1].m = "visit_named_unit" /\ log[1].ty = "S"

\* C15: a tuple struct with n >= 1 unnamed fields emits one visit_named_seq
\* call that carries the struct's type name and a visitor over the struct
\* with len() = Some(n) and its counter at 0; pull k, k = 1..n, passes field
\* k-1 to the encoder, one field per pull in positional order; every pull
\* after pull n reports exhaustion.
AllUnnamed(c) == c.decl # <<>> /\ \A k \in DOMAIN c.decl : c.decl[k].kind = "unnamed"
C15_TupleStruct ==
    /\ \A i \in DOMAIN stack :
          (stack[i].k = "ser" /\ stack[i].v.kind = "struct" /\ AllUnnamed(stack[i].v)
             /\ stack[i].pc = "wait") =>
             LET e == log[stack[i].li]
             IN  /\ stack[i].n = 1
                 /\ e.m = "visit_named_seq" /\ e.ty = stack[i].v.name
                 /\ e.len = Len(stack[i].v.decl)
    /\ \A i \in EntryFrames : Entry(i).m = "visit_named_seq" =>
          LET f == stack[i]
              c == SerOf(i)
              n == Len(c.decl)
              d == Delivered(i)
          IN  /\ c.kind = "struct" /\ AllUnnamed(c) /\ n = Len(c.elems)
              /\ f.vis.value = c
              /\ f.vis.state = Len(d) /\ Len(d) <= n
              /\ \A k \in DOMAIN d : d[k].val = c.elems[k] /\ d[k].key = ""
              /\ \A k \in DOMAIN f.h : (f.h[k] = "OkNone") <=> (k > n)
              /\ f.pc = "run" => Len(d) = Min(Len(f.h), n)

\* C15's case: struct T(i32, &str) pulled to exhaustion
C15_Witness ==
    \E i \in EntryFrames :
       /\ SerOf(i) = Struct("T", <<"", "">>, <<I32(1), Str(1)>>)
       /\ Entry(i).m = "visit_named_seq" /\ Entry(i).ty = "T" /\ Entry(i).len = 2
       /\ stack[i].h = <<"OkSome", "OkSome", "OkNone">>
       /\ [k \in DOMAIN stack[i].deliv |-> Delivered(i)[k].val] = <<I32(1), Str(1)>>

\* C16: a struct declaration with both named and unnamed fields is rejected
\* when the implementation is derived: the expansion aborts, no serialize
\* implementation exists for the type, so no serialize of it ever starts and
\* no encoder call is ever made for it; and only such declarations are
\* rejected.
IsMixed(c) ==
    /\ c.kind = "struct"
    /\ \E k \in DOMAIN c.decl : c.decl[k].kind = "named"
    /\ \E k \in DOMAIN c.decl : c.decl[k].kind = "unnamed"
C16_MixedStructRejected ==
    /\ IsMixed(root) =>
          /\ result \in {"derive", "bug"}
          /\ stack = <<>> /\ log = <<>> /\ entries = 0 /\ ret = "none"
    /\ (root.kind = "struct" /\ result = "bug") => IsMixed(root)
    /\ (root.kind = "struct" /\ ~IsMixed(root) /\ result # "derive") =>
          stack # <<>> \/ Finished

\* C16's case: the expansion for struct M { x: i32, &str } has aborted
C16_Witness ==
    /\ root = Struct("M", <<"x", "">>, <<I32(1), Str(1)>>)
    /\ result = "bug" /\ log = <<>>

\* C17: every serialize call on a value of a supported type, Path and PathBuf
\* among them, ends by returning Ok or by returning a failure that an encoder
\* call originated; no adapter aborts or fails on its own.
C17_OnlyEncoderFailures ==
    /\ result # "panic"
    /\ result \in Errors => (fails >= 1 /\ firstFail.e # "none" /\ log # <<>>)

\* C18: a pull on a map-shaped visitor (MapIteratorVisitor, the generated
\* visitor of a struct or of a struct variant) that still has a pair makes
\* exactly one encoder call, and that call carries the key and the value of
\* the pair together; so the visitor has made one such call for every pull
\* that returned a pair or a failure, and never a call with a key alone.
MapVisitors == {"MapIteratorVisitor", "GenMapVisitor"}
HasPair(vis) ==
    IF vis.vk = "MapIteratorVisitor" THEN IterNext(vis.src).item # NoItem
    ELSE vis.state < Len(vis.arms)
CarriesPair(e) ==
    \/ /\ e.m = "visit_map_elt" /\ e.key = ""
       /\ e.val.kind = "pair" /\ Len(e.val.elems) = 2
    \/ /\ e.m = "visit_named_map_elt" /\ e.key # ""
       /\ e.val.kind \notin {"pair", "no-item"}
C18_PullStep ==
    (/\ stack # <<>> /\ Top.k = "visit" /\ Top.pc = "call"
     /\ stack[Len(stack) - 1].vis.vk \in MapVisitors
     /\ HasPair(stack[Len(stack) - 1].vis)) =>
        LET vis == stack[Len(stack) - 1].vis
            e == log'[Len(log')]
            callee == stack'[Len(stack')]
        IN  /\ Len(log') = Len(log) + 1
            /\ SubSeq(log', 1, Len(log)) = log
            /\ CarriesPair(e)
            /\ vis.vk = "MapIteratorVisitor" =>
                  /\ e.val = IterNext(vis.src).item
                  /\ callee.todo = e.val.elems
            /\ vis.vk = "GenMapVisitor" =>
                  /\ e.key = vis.arms[vis.state + 1].key
                  /\ callee.todo = <<e.val>>
            /\ Len(stack') = Len(stack) + 1
            /\ callee.k = "enc" /\ callee.li = Len(log')
C18_PullState ==
    \A i \in EntryFrames : stack[i].vis.vk \in MapVisitors =>
       LET f == stack[i]
           d == Delivered(i)
           answered == Len(f.h) - NumOf(f.h, "OkNone")
       IN  /\ \A k \in DOMAIN d : CarriesPair(d[k])
           /\ f.pc = "run" => Len(d) = answered
           /\ f.pc = "pull" => Len(d) \in {answered, answered + 1}
C18_KeyWithValue == []C18_PullState /\ [][C18_PullStep]_vars

\* C18's case: a HashMap whose second pair's call failed, the failure reported
\* by the pull: both pairs went to the encoder whole
C18_Witness ==
    \E i \in EntryFrames :
       /\ SerOf(i).kind = "HashMap" /\ stack[i].pc = "run"
       /\ Len(stack[i].h) = 2 /\ stack[i].h[1] = "OkSome" /\ stack[i].h[2] \in Errors
       /\ Len(stack[i].deliv) = 2
       /\ Delivered(i)[2].m = "visit_map_elt" /\ Delivered(i)[2].val \in MapPairs

\* C19: for a HashSet or a HashMap holding n elements (pairs), whatever the
\* order of iteration: no element is delivered twice, only elements of the
\* container are delivered, and once the visitor has reported exhaustion with
\* no pull failed, exactly n pulls have returned an element and every element
\* of the container has been delivered.
C19_HashEachOnce ==
    \A i \in EntryFrames : SerOf(i).kind \in {"HashSet", "HashMap"} =>
       LET f == stack[i]
           c == SerOf(i)
           d == Delivered(i)
           n == Cardinality(Range(c.elems))
       IN  /\ \A a, b \in DOMAIN d : d[a].val = d[b].val => a = b
           /\ \A a \in DOMAIN d : d[a].val \in Range(c.elems)
           /\ ("OkNone" \in Range(f.h) /\ ~Failed(f.h)) =>
                 /\ NumOf(f.h, "OkSome") = n /\ Len(d) = n
                 /\ {d[a].val : a \in DOMAIN d} = Range(c.elems)
                 /\ \A k \in DOMAIN f.h : (f.h[k] = "OkSome") <=> (k <= n)

\* C19's case: a HashSet of 1, 2, 3 iterated as 3, 1, 2, to exhaustion
C19_Witness ==
    \E i \in EntryFrames :
       /\ SerOf(i).kind = "HashSet"
       /\ [k \in DOMAIN stack[i].deliv |-> Delivered(i)[k].val] = <<I32(3), I32(1), I32(2)>>
       /\ stack[i].h = <<"OkSome", "OkSome", "OkSome", "OkNone">>

\* C20: the encoder is the driver.  Serialize of a composite value makes one
\* call, the structural entry point, handing over a visitor that has not been
\* pulled; visit runs only when the encoder's entry point calls it; and an
\* element callback is made only inside such a visit.  So after k pulls of the
\* entry point the visitor of a container (tuple, struct, variant payload) of
\* n elements has made exactly min(k, n) element callbacks, none without a pull.
EltCallbacks == {"visit_seq_elt", "visit_map_elt", "visit_tuple_elt", "visit_named_map_elt"}
EntryPoints ==
    {"visit_seq", "visit_map", "visit_tuple", "visit_named_seq", "visit_named_map",
     "visit_enum_seq", "visit_enum_map"}
Composites ==
    {"slice", "Vec", "array", "BTreeSet", "HashSet", "BTreeMap", "HashMap", "tuple",
     "struct", "enum"}
Elements(c) ==
    CASE c.kind \in {"BTreeSet", "HashSet", "BTreeMap", "HashMap"} -> Cardinality(Range(c.elems))
      [] OTHER -> Len(c.elems)
C20_DriverState ==
    /\ \A i \in DOMAIN stack : stack[i].k = "visit" =>
          /\ i > 1 /\ stack[i - 1].k = "enc" /\ stack[i - 1].pc = "pull"
          /\ stack[i - 1].vis.vk # "none"
    /\ \A i \in EntryFrames : SerOf(i).kind \in Composites =>
          LET f == stack[i]
              n == Elements(SerOf(i))
              k == Len(f.h)
          IN  /\ Entry(i).m \in EntryPoints
              /\ f.pc = "run" => Len(f.deliv) = Min(k, n)
              /\ f.pc = "pull" => Len(f.deliv) \in {Min(k, n), Min(k + 1, n)}
              /\ \A a \in DOMAIN f.deliv : Delivered(i)[a].m \in EltCallbacks
C20_DriverStep ==
    /\ (stack # <<>> /\ Top.k = "ser" /\ Top.pc = "call" /\ Top.v.kind \in Composites
          /\ log' # log) =>
          LET callee == stack'[Len(stack')]
          IN  /\ Len(log') = Len(log) + 1
              /\ log'[Len(log')].m \in EntryPoints \cup {"visit_named_unit", "visit_enum_unit"}
              /\ Len(stack') = Len(stack) + 1
              /\ callee.k = "enc" /\ callee.h = <<>> /\ callee.deliv = <<>>
              /\ callee.vis.state = 0
              /\ callee.vis.vk \in IteratorVisitors =>
                    Len(callee.vis.src) = Elements(Top.v)
    /\ (Len(log') > Len(log) /\ log'[Len(log')].m \in EltCallbacks) =>
          /\ Top.k = "visit" /\ Top.pc = "call"
          /\ Len(log') = Len(log) + 1
C20_EncoderDrives == []C20_DriverState /\ [][C20_DriverStep]_vars

\* C20's case: the entry point of a 12-tuple has pulled 5 times and no more:
\* 5 element callbacks have been made
C20_Witness ==
    \E i \in EntryFrames :
       /\ SerOf(i).kind = "tuple" /\ Len(SerOf(i).elems) = MaxTupleArity
       /\ stack[i].pc = "run" /\ Len(stack[i].h) = 5
       /\ Len(stack[i].deliv) = 5 /\ i = Len(stack)

\* C21: with an encoder whose entry points pull each visitor until it reports
\* exhaustion or a failure and then return, the serialize call of every
\* (finite) value ends; every visitor answers a pull with exhaustion or a
\* failure before the entry point has made MaxPulls pulls; and the call stack
\* never holds more than five frames (serialize, delegated serialize, entry
\* point, visit, element callback) for each level of nesting of the value.
RECURSIVE Depth(_)
Depth(v) ==
    LET below == {Depth(v.elems[k]) : k \in DOMAIN v.elems}
    IN  1 + (IF below = {} THEN 0 ELSE CHOOSE m \in below : \A o \in below : o <= m)
Terminated == result \notin {"pending", "derive"}
PullsEnd ==
    \A i \in DOMAIN stack :
       (stack[i].k = "enc" /\ stack[i].h # <<>> /\ Last(stack[i].h) = "OkSome") =>
          Len(stack[i].h) < MaxPulls
RecursionBounded == Len(stack) <= 5 * Depth(root)
C21_Terminates == <>Terminated /\ [](PullsEnd /\ RecursionBounded)

\* C21's case: a Vec of Vecs has been serialized to its end, each visitor
\* pulled to its exhaustion
C21_Witness ==
    /\ root = Coll("Vec", <<Coll("Vec", <<I32(1)>>), Coll("Vec", <<>>)>>)
    /\ result = "Ok"
    /\ [k \in DOMAIN log |-> log[k].m] =
          <<"visit_seq", "visit_seq_elt", "visit_seq", "visit_seq_elt", "visit_i32",
            "visit_seq_elt", "visit_seq">>

\* C22: the length a visitor reports is fixed when it is constructed.  The
\* len() of a SeqIteratorVisitor or MapIteratorVisitor is the len given to
\* new, before and after any number of pulls and whatever number of elements
\* the source yields; the len() of a tuple visitor of arity n is Some(n)
\* before, during and after the traversal.
C22_LenHintFixed ==
    \A i \in EntryFrames :
       LET f == stack[i]
           c == SerOf(i)
       IN  /\ f.vis.vk = "SeqIteratorVisitor" =>
                 /\ SeqIteratorVisitor_len(f.vis) = Entry(i).len
                 /\ c.kind = "UserSeq" => SeqIteratorVisitor_len(f.vis) = c.x
                 /\ c.kind \in {"slice", "Vec"} => SeqIteratorVisitor_len(f.vis) = Len(c.elems)
           /\ f.vis.vk = "MapIteratorVisitor" =>
                 /\ MapIteratorVisitor_len(f.vis) = Entry(i).len
                 /\ c.kind = "UserMap" => MapIteratorVisitor_len(f.vis) = c.x
           /\ f.vis.vk = "TupleVisitor" =>
                 /\ TupleVisitor_len(f.vis) = Entry(i).len
                 /\ TupleVisitor_len(f.vis) = Len(c.elems)

\* C22's case: SeqIteratorVisitor::new(iter, Some(1)) over a source of three
\* elements, pulled to exhaustion: len() is still Some(1)
C22_Witness ==
    \E i \in EntryFrames :
       /\ SerOf(i).kind = "UserSeq" /\ SerOf(i).x = 1
       /\ stack[i].h = <<"OkSome", "OkSome", "OkSome", "OkNone">>
       /\ Len(stack[i].deliv) = 3
       /\ SeqIteratorVisitor_len(stack[i].vis) = 1

\* C23: every serialize call constructs a fresh visitor, at the first element
\* (counter 0, or a new iterator over the whole container), whatever happened
\* in earlier calls; so when the same value is serialized twice in a row, the
\* calls of the two serializations are the same: the calls of the one that
\* was pulled less (because it was aborted by a failure, say) are the
\* beginning of the calls of the other.
Strip(e) == [e EXCEPT !.res = "pending"]
IsPrefix(a, b) == Len(a) <= Len(b) /\ \A j \in DOMAIN a : a[j] = b[j]
\* the element callbacks that pass the repeated value, and the calls made after
\* each of them up to the next one
Marks == {k \in DOMAIN log : log[k].m = "visit_seq_elt" /\ log[k].val = root.elems[1]}
CallsOf(k) ==
    LET later == {m \in Marks : m > k} \cup {Len(log) + 1}
        end == CHOOSE m \in later : \A o \in later : m <= o
    IN  [j \in 1..(end - 1 - k) |-> Strip(log[k + j])]
C23_FreshVisitor ==
    /\ \A i \in EntryFrames : (stack[i].h = <<>> /\ stack[i].pc = "run") =>
          /\ stack[i].deliv = <<>>
          /\ stack[i].vis.vk \in CounterVisitors => stack[i].vis.state = 0
          /\ (stack[i].vis.vk \in IteratorVisitors /\ SerOf(i).kind \in Composites) =>
                Len(stack[i].vis.src) = Elements(SerOf(i))
    /\ \A i \in EntryFrames :
          (stack[i].deliv # <<>> /\ SerOf(i).kind \in {"slice", "Vec", "array", "tuple", "struct"}) =>
             Delivered(i)[1].val = SerOf(i).elems[1]
    /\ root \in Repeated =>
          /\ \A a, b \in Marks :
                IsPrefix(CallsOf(a), CallsOf(b)) \/ IsPrefix(CallsOf(b), CallsOf(a))
          /\ \A a \in Marks : CallsOf(a) # <<>> =>
                /\ CallsOf(a)[1] \in OwnEntryCalls(root.elems[1])
                /\ Len(CallsOf(a)) >= 2 => CallsOf(a)[2].val = root.elems[1].elems[1]

\* C23's case: a tuple struct serialized twice; the first serialization was
\* cut short by a failure of its first field, the second ran to the end from
\* the first field on
C23_Witness ==
    /\ root = Coll("slice", <<Struct("T", <<"", "">>, FieldVals(2)), Struct("T", <<"", "">>, FieldVals(2))>>)
    /\ Cardinality(Marks) = 2
    /\ \E a, b \in Marks :
          /\ a < b
          /\ Len(CallsOf(a)) = 3 /\ log[a + 3].res \in Errors
          /\ Len(CallsOf(b)) = 5
          /\ CallsOf(b)[2].val = I32(1) /\ CallsOf(b)[4].val = Str(1)

\* C24: a visitor has moved on before it makes its element callback: while
\* the callback for position k runs, a counter visitor's counter is already
\* k+1 and an iterator visitor's source has already given the element up.  So
\* when that callback fails, a later pull on the same visitor does not deliver
\* element k again: the elements delivered are always the first elements of
\* the container, in order, each once, whichever of their callbacks failed.
PositionalKinds == {"slice", "Vec", "array", "tuple", "struct", "enum"}
C24_AdvanceBeforeCall ==
    /\ \A i \in DOMAIN stack : (stack[i].k = "visit" /\ stack[i].pc = "wait") =>
          LET owner == stack[i - 1]
          IN  /\ owner.deliv # <<>> /\ Last(owner.deliv) = stack[i].li
              /\ owner.vis.vk \in CounterVisitors => owner.vis.state = Len(owner.deliv)
              /\ (owner.vis.vk \in IteratorVisitors /\ SerOf(i - 1).kind \in Composites) =>
                    Len(owner.vis.src) = Elements(SerOf(i - 1)) - Len(owner.deliv)
    /\ \A i \in EntryFrames : SerOf(i).kind \in Composites =>
          LET f == stack[i]
              c == SerOf(i)
              d == Delivered(i)
          IN  /\ \A a, b \in DOMAIN f.deliv : a < b => f.deliv[a] < f.deliv[b]
              /\ c.kind \notin PositionalKinds =>
                    \A a, b \in DOMAIN d : d[a].val = d[b].val => a = b
              /\ c.kind \in PositionalKinds => \A a \in DOMAIN d : d[a].val = c.elems[a]
              /\ f.vis.vk \in CounterVisitors => f.vis.state = Len(d)
              /\ f.pc = "run" => Len(d) = Min(Len(f.h), Elements(c))

\* C24's case: the callback for slot 0 of a tuple failed, the entry point
\* pulled again, and the pull delivered slot 1
C24_Witness ==
    \E i \in EntryFrames :
       /\ stack[i].vis.vk = "TupleVisitor" /\ stack[i].pc = "run"
       /\ Len(stack[i].h) = 2 /\ stack[i].h[1] \in Errors /\ stack[i].h[2] = "OkSome"
       /\ stack[i].vis.state = 2
       /\ Delivered(i)[1].val = SerOf(i).elems[1] /\ Delivered(i)[2].val = SerOf(i).elems[2]
       /\ Delivered(i)[1].val # Delivered(i)[2].val

\* C25: the counter of a counter-driven visitor of arity n (a tuple visitor,
\* u8 counter, n <= 12; a generated visitor, n its number of fields) is always
\* in 0..n.  A step changes it only by adding 1, and only in the pull that
\* delivers an element; a pull on an exhausted visitor leaves it alone; so it
\* never reaches the width of its type.
CounterFrames(s) == {i \in DOMAIN s : s[i].k = "enc" /\ s[i].vis.vk \in CounterVisitors}
C25_CounterRange ==
    \A i \in CounterFrames(stack) :
       LET vis == stack[i].vis
           n == Len(vis.arms)
       IN  /\ vis.state \in 0..n
           /\ vis.vk = "TupleVisitor" => (n <= MaxTupleArity /\ vis.state < U8 - 1)
           /\ n = Len(vis.value.elems)
           /\ vis.state = NumOf(stack[i].h, "OkSome") + NumOf(stack[i].h, "E1")
                            + NumOf(stack[i].h, "E2")
                            + (IF stack[i].pc = "pull" /\ Len(stack[i].deliv) > Len(stack[i].h)
                               THEN 1 ELSE 0)
C25_CounterStep ==
    \A i \in CounterFrames(stack) :
       (i \in DOMAIN stack' /\ stack'[i].li = stack[i].li) =>
          LET delivers == /\ i = Len(stack) - 1 /\ Top.k = "visit" /\ Top.pc = "call"
                          /\ stack[i].vis.state < Len(stack[i].vis.arms)
          IN  /\ stack'[i].vis.state =
                    IF delivers THEN stack[i].vis.state + 1 ELSE stack[i].vis.state
              /\ delivers <=>
                    (Len(log') = Len(log) + 1 /\ Top.k = "visit" /\ i = Len(stack) - 1)
C25_CounterBounded == []C25_CounterRange /\ [][C25_CounterStep]_vars

\* C25's case: a 12-tuple's visitor, pulled to exhaustion and then pulled
\* MaxLatePulls times more, its counter at 12
C25_Witness ==
    \E i \in CounterFrames(stack) :
       /\ stack[i].vis.vk = "TupleVisitor" /\ Len(stack[i].vis.arms) = MaxTupleArity
       /\ stack[i].vis.state = MaxTupleArity
       /\ NumOf(stack[i].h, "OkNone") = 1 + MaxLatePulls

\* C26: the element callback of a visitor is of one kind, fixed by the entry
\* point the visitor was handed to, for every pull: visit_seq_elt after
\* visit_seq and visit_tuple, visit_tuple_elt after visit_named_seq and
\* visit_enum_seq, visit_map_elt after visit_map, visit_named_map_elt after
\* visit_named_map and visit_enum_map.
EltOf ==
    [visit_seq |-> "visit_seq_elt", visit_tuple |-> "visit_seq_elt",
     visit_named_seq |-> "visit_tuple_elt", visit_enum_seq |-> "visit_tuple_elt",
     visit_map |-> "visit_map_elt",
     visit_named_map |-> "visit_named_map_elt", visit_enum_map |-> "visit_named_map_elt"]
C26_CallbackKindFixed ==
    \A i \in EntryFrames :
       /\ Entry(i).m \in DOMAIN EltOf
       /\ \A k \in DOMAIN stack[i].deliv : Delivered(i)[k].m = EltOf[Entry(i).m]
       /\ stack[i].vis.elt = EltOf[Entry(i).m]

\* C26's case: the payload of Pair(5, 6), handed over through visit_enum_seq,
\* delivered whole through visit_tuple_elt
C26_Witness ==
    \E i \in EntryFrames :
       /\ Entry(i).m = "visit_enum_seq" /\ Len(stack[i].deliv) = 2
       /\ Delivered(i)[1].m = "visit_tuple_elt" /\ Delivered(i)[2].m = "visit_tuple_elt"
       /\ Last(stack[i].h) = "OkNone"

=============================================================================
